---- MODULE Spec2Model ----
(***************************************************************************)
(* A model of the rooted-tree engine of cosmic-sys-lib                     *)
(* (include/cosmic/trees.hpp): the TreeNode heap, RootedTree canonical     *)
(* forms, the memoised RootedTreeGenerator, the reroot/unrooted engine     *)
(* and the level facade, driven by a single-threaded caller; the same      *)
(* generator entered by two threads; the level tables of util              *)
(* (src/system.cpp); the tree generator, flip transform and System 5       *)
(* term table of the terms module (include/cosmic/terms.hpp); and the      *)
(* CreativeProcess and TermNavigator of src/operations.cpp.                *)
(*                                                                         *)
(* TreeNode objects live in `heap`, a sequence of records; the address of  *)
(* a node is its index and NULL (0) is the empty shared_ptr / expired      *)
(* weak_ptr.  make_shared appends a record.  A RootedTree value is the     *)
(* address held by its root_ member.  std::string values over the two      *)
(* bracket characters are sequences of their character codes.              *)
(***************************************************************************)
EXTENDS Integers, Sequences, FiniteSets, Bags, TLC

\* ------------------------------------------------------------------ bounds
\* Largest n / level+1 the caller passes to generate and to the facade.
MaxN == 6
\* Largest node count of the hand-built trees compared with operator==.
MaxCmp == 4
\* Largest node count of the trees a caller assembles from a parent table.
MaxBuild == 5
\* How far below 0 and above 10 the arguments passed to the facade go.
MaxBad == 2
\* Largest n the concurrent callers pass to generate.
MaxConcN == 3
\* Nodes made and addChild calls made by a caller of TreeNode.
MaxNodes == 3
MaxLinks == 2
\* Largest n passed to the generator and flip transform of the terms module.
MaxTermsN == 5
\* Calls a caller makes on a CreativeProcess between two resets.
MaxCalls == 12
\* Terms a caller of TermNavigator makes.
MaxTerms == 4
\* Largest n passed to generate by the caller that watches the duplicate
\* check: from 7 on a partition has two equal parts with a choice of subtree.
MaxDedupN == 7
\* Longest bracket string a caller hands to fromCanonical.
MaxStr == 4

\* ------------------------------------------------------------- characters
LParen == 40
RParen == 41
NULL == 0

\* A000081 / A000055 as the header spells them (index 0..11).
A000081 == <<0, 1, 1, 2, 4, 9, 20, 48, 115, 286, 719, 1842>>
A000055 == <<1, 1, 1, 1, 2, 3, 6, 11, 23, 47, 106, 235>>
a000081(n) == IF n < 0 \/ n > 11 THEN 0 ELSE A000081[n + 1]
a000055(n) == IF n < 0 \/ n > 11 THEN 0 ELSE A000055[n + 1]

Min2(x, y) == IF x < y THEN x ELSE y

\* TLC evaluates operator arguments on demand, so a loop that threads a heap
\* through its iterations would pile up unevaluated iterations.  Then(v, e)
\* is e, with v evaluated first.  For the same reason a value that is used
\* more than once is handed on as an operator argument.
Then(v, e) == IF v = v THEN e ELSE e

\* ------------------------------------------------------------ std::string
\* operator< of std::string: the first differing character decides,
\* otherwise the shorter string is the smaller.
StrLess(x, y) ==
    \E i \in 0..Min2(Len(x), Len(y)) :
        /\ \A j \in 1..i : x[j] = y[j]
        /\ \/ i = Len(x) /\ i < Len(y)
           \/ i < Len(x) /\ i < Len(y) /\ x[i + 1] < y[i + 1]

RECURSIVE Concat(_)
Concat(ss) == IF ss = <<>> THEN <<>> ELSE Head(ss) \o Concat(Tail(ss))

\* --------------------------------------------------------------- TreeNode
\* TreeNode(int id): no children, parent_ empty.
TreeNode(id) == [id |-> id, children |-> <<>>, parent |-> NULL]

\* std::make_shared<TreeNode>(id): the new node's address is Len(h) + 1.
MakeNode(h, id) == Append(h, TreeNode(id))

setId(h, node, id) == [h EXCEPT ![node].id = id]
setParent(h, node, p) == [h EXCEPT ![node].parent = p]
addChild(h, node, child) == [h EXCEPT ![node].children = Append(@, child)]

\* The pair of calls every builder makes for a new child:
\* child->setParent(node); node->addChild(child).
\* AttachChild without child->setParent(node).
AttachChildNoParent(h, node, child) == addChild(h, node, child)
AttachChild(h, node, child) == addChild(setParent(h, child, node), node, child)

RECURSIVE subtreeSize(_, _)
RECURSIVE SumSizes(_, _, _)
SumSizes(h, kids, i) ==
    IF i > Len(kids) THEN 0
    ELSE subtreeSize(h, kids[i]) + SumSizes(h, kids, i + 1)
subtreeSize(h, node) == 1 + SumSizes(h, h[node].children, 1)

\* ------------------------------------------------------------- RootedTree
nodeCount(h, root) == IF root # NULL THEN subtreeSize(h, root) ELSE 0

\* canonicalString without the std::sort of the child strings.
RECURSIVE canonicalStringUnsorted(_, _)
canonicalStringUnsorted(h, node) ==
    IF node = NULL THEN <<LParen, RParen>>
    ELSE <<LParen>>
         \o Concat([i \in 1..Len(h[node].children) |->
                       canonicalStringUnsorted(h, h[node].children[i])])
         \o <<RParen>>

RECURSIVE canonicalString(_, _)
canonicalString(h, node) ==
    IF node = NULL THEN <<LParen, RParen>>
    ELSE <<LParen>>
         \o Concat(SortSeq([i \in 1..Len(h[node].children) |->
                               canonicalString(h, h[node].children[i])], StrLess))
         \o <<RParen>>

canonical(h, root) == canonicalString(h, root)

\* RootedTree::operator==
TreeEq(h, x, y) == canonical(h, x) = canonical(h, y)

\* collectNodes / allNodes: pre-order list of node addresses.
RECURSIVE collectNodes(_, _)
RECURSIVE CollectKids(_, _, _)
CollectKids(h, kids, i) ==
    IF i > Len(kids) THEN <<>>
    ELSE collectNodes(h, kids[i]) \o CollectKids(h, kids, i + 1)
collectNodes(h, node) ==
    IF node = NULL THEN <<>>
    ELSE <<node>> \o CollectKids(h, h[node].children, 1)
allNodes(h, root) == collectNodes(h, root)

\* A builder's result [heap, node, ...] seen as a tree.
TreeOf(r) == [heap |-> r.heap, node |-> r.node]

\* copyNode: deep copy with fresh nodes numbered from nextId in pre-order.
\* Returns the heap, the copy's address and the advanced nextId.
RECURSIVE copyNode(_, _, _)
RECURSIVE CopyKids(_, _, _, _, _)
\* childCopy is copyNode's result for kids[i]; it is attached to copyAddr.
CopyKidsNext(childCopy, kids, i, copyAddr) ==
    Then(Len(childCopy.heap),
         CopyKids(AttachChild(childCopy.heap, copyAddr, childCopy.node),
                  kids, i + 1, copyAddr, childCopy.nextId))
CopyKids(h, kids, i, copyAddr, nextId) ==
    IF i > Len(kids) THEN [heap |-> h, node |-> copyAddr, nextId |-> nextId]
    ELSE CopyKidsNext(copyNode(h, kids[i], nextId), kids, i, copyAddr)
copyNode(h, node, nextId) ==
    IF node = NULL THEN [heap |-> h, node |-> NULL, nextId |-> nextId]
    ELSE CopyKids(MakeNode(h, nextId), h[node].children, 1, Len(h) + 1, nextId + 1)

\* RootedTree::copy
copy(h, root) == copyNode(h, root, 0)

\* RootedTree(): a fresh single node with id 0.
NewRootedTree(h) == [heap |-> MakeNode(h, 0), node |-> Len(h) + 1]

\* ---------------------------------------------------- RootedTreeGenerator
RECURSIVE renumberNodes(_, _, _)
RECURSIVE RenumberKids(_, _, _, _)
RenumberNext(r, kids, i) ==
    Then(Len(r.heap), RenumberKids(r.heap, kids, i + 1, r.nextId))
RenumberKids(h, kids, i, nextId) ==
    IF i > Len(kids) THEN [heap |-> h, nextId |-> nextId]
    ELSE RenumberNext(renumberNodes(h, kids[i], nextId), kids, i)
renumberNodes(h, node, nextId) ==
    IF node = NULL THEN [heap |-> h, nextId |-> nextId]
    ELSE RenumberKids(setId(h, node, nextId), h[node].children, 1, nextId + 1)

\* The loop of generateCombinations that assembles one candidate under root:
\* subtreeCopy = sets[i][indices[i]].copy(); renumberNodes(subtreeRoot, nodeId);
\* subtreeRoot->setParent(root); root->addChild(subtreeRoot).
RECURSIVE Assemble(_, _, _, _, _, _)
AssembleAttach(r, subtreeRoot, sets, indices, i, root) ==
    Then(Len(r.heap),
         Assemble(AttachChild(r.heap, root, subtreeRoot),
                  sets, indices, i + 1, root, r.nextId))
AssembleCopy(subtreeCopy, sets, indices, i, root, nodeId) ==
    AssembleAttach(renumberNodes(subtreeCopy.heap, subtreeCopy.node, nodeId),
                   subtreeCopy.node, sets, indices, i, root)
\* Assemble with the loop bound i + 1 < indices.size(): the last selected
\* subtree is never attached.
AssembleAllButLast(h, sets, indices, i, root, nodeId) ==
    IF i >= Len(indices) THEN h
    ELSE AssembleCopy(copy(h, sets[i][indices[i] + 1]),
                      sets, indices, i, root, nodeId)
\* Assemble without the copy: the selected subtree itself is renumbered
\* and attached under the new root.
AssembleInPlace(h, sets, indices, i, root, nodeId) ==
    IF i > Len(indices) THEN h
    ELSE AssembleCopy([heap |-> h, node |-> sets[i][indices[i] + 1]],
                      sets, indices, i, root, nodeId)
Assemble(h, sets, indices, i, root, nodeId) ==
    IF i > Len(indices) THEN h
    ELSE AssembleCopy(copy(h, sets[i][indices[i] + 1]),
                      sets, indices, i, root, nodeId)

\* The duplicate check: some tree already in result equals the candidate.
isDuplicate(h, result, tree) ==
    \E j \in 1..Len(result) : TreeEq(h, result[j], tree)

\* if (!isDuplicate) result.push_back(tree); a rejected candidate goes out
\* of scope and its nodes are freed (st.heap does not contain them).  The
\* code keeps no count of the candidates it turns away; rejected is that
\* count, kept beside the generator's state for the claims to read.
PushUnlessDuplicate(st, h1, root) ==
    IF ~isDuplicate(h1, st.result, root)
    THEN [st EXCEPT !.heap = h1, !.result = Append(@, root)]
    ELSE [st EXCEPT !.rejected = @ + 1]

\* result.push_back(RootedTree())
PushTree(st, t) == [st EXCEPT !.heap = t.heap, !.result = Append(@, t.node)]

\* Memoise under the wrong key: cache[n - 1] = result.
MemoiseOffByOne(st, m) ==
    [heap |-> st.heap,
     cache |-> [x \in DOMAIN st.cache \cup {m - 1} |->
                   IF x = m - 1 THEN st.result ELSE st.cache[x]],
     result |-> st.result,
     rejected |-> st.rejected]
\* cache[n] = result; return result
Memoise(st, m) ==
    [heap |-> st.heap,
     cache |-> [x \in DOMAIN st.cache \cup {m} |->
                   IF x = m THEN st.result ELSE st.cache[x]],
     result |-> st.result,
     rejected |-> st.rejected]

\* st is the generator's running state [heap, cache, result, rejected];
\* rejected counts the candidates turned away in this call and the calls it
\* makes.  indices holds
\* the 0-based choices as in the source, pos is 0-based.
RECURSIVE generate(_, _, _)
RECURSIVE generateFromPartitions(_, _, _, _)
RECURSIVE PartLoop(_, _, _, _)
RECURSIVE buildTreesFromPartition(_, _)
RECURSIVE SubtreeSets(_, _, _, _)
RECURSIVE generateCombinations(_, _, _, _, _)
RECURSIVE IndexLoop(_, _, _, _, _, _)

\* generateCombinations with startIdx = indices[pos - 1] + 1: equal part
\* sizes get strictly increasing indices, so no subtree is chosen twice.
generateCombinationsStrict(st, sets, partition, indices, pos) ==
    IF pos = Len(sets)
    THEN PushUnlessDuplicate(
             st,
             Assemble(MakeNode(st.heap, 0), sets, indices, 1, Len(st.heap) + 1, 1),
             Len(st.heap) + 1)
    ELSE IndexLoop(st, sets, partition, indices, pos,
                   IF pos > 0 /\ partition[pos + 1] = partition[pos]
                   THEN indices[pos] + 1 ELSE 0)

\* generateCombinations with startIdx = 0 throughout: equal part sizes get
\* their indices in every order.
generateCombinationsAnyOrder(st, sets, partition, indices, pos) ==
    IF pos = Len(sets)
    THEN PushUnlessDuplicate(
             st,
             Assemble(MakeNode(st.heap, 0), sets, indices, 1, Len(st.heap) + 1, 1),
             Len(st.heap) + 1)
    ELSE IndexLoop(st, sets, partition, indices, pos, 0)

generateCombinations(st, sets, partition, indices, pos) ==
    IF pos = Len(sets)
    THEN PushUnlessDuplicate(
             st,
             Assemble(MakeNode(st.heap, 0), sets, indices, 1, Len(st.heap) + 1, 1),
             Len(st.heap) + 1)
    ELSE IndexLoop(st, sets, partition, indices, pos,
                   IF pos > 0 /\ partition[pos + 1] = partition[pos]
                   THEN indices[pos] ELSE 0)

IndexNext(s1, sets, partition, indices, pos, i) ==
    Then(Len(s1.heap), IndexLoop(s1, sets, partition, indices, pos, i + 1))
\* for (i = startIdx; i < sets[pos].size(); ++i) { indices[pos] = i; ... }
IndexLoop(st, sets, partition, indices, pos, i) ==
    IF i >= Len(sets[pos + 1]) THEN st
    ELSE IndexNext(generateCombinations(st, sets, partition,
                                        [indices EXCEPT ![pos + 1] = i], pos + 1),
                   sets, partition, indices, pos, i)

\* subtreeSets.push_back(generate(size)) for each part of the partition.
SubtreeSetsNext(g, st, partition, i, sets) ==
    Then(Len(g.heap),
         SubtreeSets([st EXCEPT !.heap = g.heap, !.cache = g.cache,
                                !.rejected = @ + g.rejected],
                     partition, i + 1, Append(sets, g.result)))
SubtreeSets(st, partition, i, sets) ==
    IF i > Len(partition) THEN [st |-> st, sets |-> sets]
    ELSE SubtreeSetsNext(generate(st.heap, st.cache, partition[i]),
                         st, partition, i, sets)

Combine(s, partition) ==
    generateCombinations(s.st, s.sets, partition,
                         [i \in 1..Len(partition) |-> 0], 0)
buildTreesFromPartition(st, partition) ==
    IF partition = <<>>
    THEN PushTree(st, NewRootedTree(st.heap))
    ELSE Combine(SubtreeSets(st, partition, 1, <<>>), partition)

generateFromPartitions(st, remaining, maxPart, partition) ==
    IF remaining = 0 THEN buildTreesFromPartition(st, partition)
    ELSE PartLoop(st, remaining, Min2(remaining, maxPart), partition)

PartNext(s1, remaining, part, partition) ==
    Then(Len(s1.heap), PartLoop(s1, remaining, part - 1, partition))
\* PartLoop with the loop condition part > 1: parts of size 1 are never tried.
PartLoopFromTwo(st, remaining, part, partition) ==
    IF part <= 1 THEN st
    ELSE PartNext(generateFromPartitions(st, remaining - part, part,
                                         Append(partition, part)),
                  remaining, part, partition)
\* for (part = min(remaining, maxPart); part >= 1; --part)
PartLoop(st, remaining, part, partition) ==
    IF part < 1 THEN st
    ELSE PartNext(generateFromPartitions(st, remaining - part, part,
                                         Append(partition, part)),
                  remaining, part, partition)

\* generate without the else: after the n == 1 tree is pushed the partitions
\* of n - 1 = 0 are enumerated as well.
generateNoElse(h, c, m) ==
    IF m <= 0 THEN [heap |-> h, cache |-> c, result |-> <<>>, rejected |-> 0]
    ELSE IF m \in DOMAIN c THEN [heap |-> h, cache |-> c, result |-> c[m], rejected |-> 0]
    ELSE Memoise(generateFromPartitions(
                     IF m = 1
                     THEN PushTree([heap |-> h, cache |-> c, result |-> <<>>, rejected |-> 0],
                                   NewRootedTree(h))
                     ELSE [heap |-> h, cache |-> c, result |-> <<>>, rejected |-> 0],
                     m - 1, m - 1, <<>>),
                 m)

\* generate without the cache lookup: the list is built on every call.
generateNoLookup(h, c, m) ==
    IF m <= 0 THEN [heap |-> h, cache |-> c, result |-> <<>>, rejected |-> 0]
    ELSE Memoise(IF m = 1
                 THEN PushTree([heap |-> h, cache |-> c, result |-> <<>>, rejected |-> 0],
                               NewRootedTree(h))
                 ELSE generateFromPartitions(
                          [heap |-> h, cache |-> c, result |-> <<>>, rejected |-> 0],
                          m - 1, m - 1, <<>>),
                 m)

generate(h, c, m) ==
    IF m <= 0 THEN [heap |-> h, cache |-> c, result |-> <<>>, rejected |-> 0]
    ELSE IF m \in DOMAIN c THEN [heap |-> h, cache |-> c, result |-> c[m], rejected |-> 0]
    ELSE Memoise(IF m = 1
                 THEN PushTree([heap |-> h, cache |-> c, result |-> <<>>, rejected |-> 0],
                               NewRootedTree(h))
                 ELSE generateFromPartitions(
                          [heap |-> h, cache |-> c, result |-> <<>>, rejected |-> 0],
                          m - 1, m - 1, <<>>),
                 m)

\* ----------------------------------------------------------- UnrootedTree
\* The parent chain walked by rerootAt: newRoot, its parent, ... up to the
\* node whose parent_ is empty.
RECURSIVE PathFrom(_, _)
PathFrom(h, current) ==
    IF current = NULL THEN <<>>
    ELSE <<current>> \o PathFrom(h, h[current].parent)

RECURSIVE copySubtree(_, _, _)
RECURSIVE CopySubKids(_, _, _, _, _)
CopySubKidsNext(childCopy, kids, i, copyAddr) ==
    Then(Len(childCopy.heap),
         CopySubKids(AttachChild(childCopy.heap, copyAddr, childCopy.node),
                     kids, i + 1, copyAddr, childCopy.nextId))
CopySubKids(h, kids, i, copyAddr, nextId) ==
    IF i > Len(kids) THEN [heap |-> h, node |-> copyAddr, nextId |-> nextId]
    ELSE CopySubKidsNext(copySubtree(h, kids[i], nextId), kids, i, copyAddr)
copySubtree(h, node, nextId) ==
    IF node = NULL THEN [heap |-> h, node |-> NULL, nextId |-> nextId]
    ELSE CopySubKids(MakeNode(h, nextId), h[node].children, 1, Len(h) + 1, nextId + 1)

\* The loops of rerootAt and buildReversedPath over the children of a path
\* node: every child that is neither skip1 nor skip2 is copied under target.
RECURSIVE CopyKidsExcept(_, _, _, _, _, _, _)
CopyExceptNext(childCopy, kids, i, skip1, skip2, target) ==
    Then(Len(childCopy.heap),
         CopyKidsExcept(AttachChild(childCopy.heap, target, childCopy.node),
                        kids, i + 1, skip1, skip2, target, childCopy.nextId))
CopyKidsExcept(h, kids, i, skip1, skip2, target, nextId) ==
    IF i > Len(kids) THEN [heap |-> h, nextId |-> nextId]
    ELSE IF kids[i] # skip1 /\ kids[i] # skip2
    THEN CopyExceptNext(copySubtree(h, kids[i], nextId),
                        kids, i, skip1, skip2, target)
    ELSE CopyKidsExcept(h, kids, i + 1, skip1, skip2, target, nextId)

\* if (sub) { sub->setParent(node); node->addChild(sub); }
AttachIfAny(sub, node) ==
    [heap |-> IF sub.node # NULL THEN AttachChild(sub.heap, node, sub.node)
              ELSE sub.heap,
     node |-> node,
     nextId |-> sub.nextId]

\* idx is 0-based as in the source: path[idx] there is path[idx + 1] here.
RECURSIVE buildReversedPath(_, _, _, _)
\* ReversedRest that does not continue with path[idx + 1]: the reversed
\* path ends after one node.
ReversedRestDropped(c, path, idx, node) ==
    [heap |-> c.heap, node |-> node, nextId |-> c.nextId]
ReversedRest(c, path, idx, node) ==
    AttachIfAny(buildReversedPath(c.heap, path, idx + 1, c.nextId), node)
\* buildReversedPath that excludes only path[idx + 1]: the child the path
\* came from (path[idx - 1]) is copied along with the other children.
buildReversedPathKeepPrev(h, path, idx, nextId) ==
    IF idx >= Len(path) THEN [heap |-> h, node |-> NULL, nextId |-> nextId]
    ELSE ReversedRest(
             CopyKidsExcept(MakeNode(h, nextId), h[path[idx + 1]].children, 1,
                            NULL,
                            IF idx + 1 < Len(path) THEN path[idx + 2] ELSE NULL,
                            Len(h) + 1, nextId + 1),
             path, idx, Len(h) + 1)
buildReversedPath(h, path, idx, nextId) ==
    IF idx >= Len(path) THEN [heap |-> h, node |-> NULL, nextId |-> nextId]
    ELSE ReversedRest(
             CopyKidsExcept(MakeNode(h, nextId), h[path[idx + 1]].children, 1,
                            IF idx > 0 THEN path[idx] ELSE NULL,
                            IF idx + 1 < Len(path) THEN path[idx + 2] ELSE NULL,
                            Len(h) + 1, nextId + 1),
             path, idx, Len(h) + 1)

\* The tail of rerootAt: c holds the heap after newRoot's own children were
\* copied; the reversed path is added as one more subtree.
AttachReversed(c, path, newRootCopy) ==
    IF Len(path) > 1
    THEN TreeOf(AttachIfAny(buildReversedPath(c.heap, path, 1, c.nextId),
                            newRootCopy))
    ELSE [heap |-> c.heap, node |-> newRootCopy]

RerootAlong(h, newRoot, path) ==
    AttachReversed(
        CopyKidsExcept(MakeNode(h, 0), h[newRoot].children, 1,
                       IF Len(path) > 1 THEN path[2] ELSE NULL,
                       IF Len(path) > 1 THEN path[2] ELSE NULL,
                       Len(h) + 1, 1),
        path, Len(h) + 1)

rerootAt(h, tree, newRoot) ==
    IF newRoot = tree THEN TreeOf(copy(h, tree))
    ELSE RerootAlong(h, newRoot, PathFrom(h, newRoot))

\* One iteration of the loop of computeUnrootedCanonical: reroot at node,
\* take the canonical form, keep the smaller string.
\* KeepSmaller without the comparison: minCanonical = canon every time.
KeepLast(rerooted, canon, minCanonical) ==
    [heap |-> rerooted.heap, rerooted |-> rerooted.node, minCanonical |-> canon]
KeepSmaller(rerooted, canon, minCanonical) ==
    [heap |-> rerooted.heap, rerooted |-> rerooted.node,
     minCanonical |-> IF StrLess(canon, minCanonical) THEN canon ELSE minCanonical]
CanonOfRerooted(rerooted, minCanonical) ==
    KeepSmaller(rerooted, canonical(rerooted.heap, rerooted.node), minCanonical)
UnrootedIter(h, tree, node, minCanonical) ==
    CanonOfRerooted(rerootAt(h, tree, node), minCanonical)

\* The loop itself; each rerooted tree is destroyed at the end of its
\* iteration, so every iteration starts from the same heap h.
RECURSIVE UnrootedLoop(_, _, _, _, _)
UnrootedNext(m, h, tree, nodes, i) ==
    Then(Len(m), UnrootedLoop(h, tree, nodes, i + 1, m))
UnrootedLoop(h, tree, nodes, i, minCanonical) ==
    IF i > Len(nodes) THEN minCanonical
    ELSE UnrootedNext(UnrootedIter(h, tree, nodes[i], minCanonical).minCanonical,
                      h, tree, nodes, i)

\* computeUnrootedCanonical without the loop over the nodes: the canonical
\* form of the rooting it was given.
computeUnrootedCanonicalAsRooted(h, tree) == canonical(h, tree)

computeUnrootedCanonical(h, tree) ==
    UnrootedLoop(h, tree, allNodes(h, tree), 1, canonical(h, tree))

sameUnrootedClass(h, ta, tb) ==
    computeUnrootedCanonical(h, ta) = computeUnrootedCanonical(h, tb)

\* ---------------------------------------------------------- FlipTransform
\* clusterMap[key].push_back(tree): operator[] of std::map creates the
\* entry on first use.
\* clusterMap[key] = {tree}: the entry is replaced, not extended.
MapPushReplace(clusterMap, key, tree) ==
    [x \in DOMAIN clusterMap \cup {key} |->
        IF x = key THEN <<tree>> ELSE clusterMap[x]]

MapPush(clusterMap, key, tree) ==
    [x \in DOMAIN clusterMap \cup {key} |->
        IF x = key
        THEN Append(IF key \in DOMAIN clusterMap THEN clusterMap[key] ELSE <<>>, tree)
        ELSE clusterMap[x]]

RECURSIVE ClusterMapLoop(_, _, _, _)
ClusterMapNext(m, h, ts, i) ==
    Then(DOMAIN m, ClusterMapLoop(h, ts, i + 1, m))
\* ClusterMapLoop keyed by tree.canonical() instead of unrooted.canonical().
ClusterMapLoopRooted(h, ts, i, clusterMap) ==
    IF i > Len(ts) THEN clusterMap
    ELSE ClusterMapNext(MapPush(clusterMap, canonical(h, ts[i]), ts[i]),
                        h, ts, i)
ClusterMapLoop(h, ts, i, clusterMap) ==
    IF i > Len(ts) THEN clusterMap
    ELSE ClusterMapNext(MapPush(clusterMap, computeUnrootedCanonical(h, ts[i]), ts[i]),
                        h, ts, i)

\* The keys of a std::map in iteration order (ascending by operator<).
RECURSIVE KeysAscending(_)
KeysAfter(least, keys) == <<least>> \o KeysAscending(keys \ {least})
KeysAscending(keys) ==
    IF keys = {} THEN <<>>
    ELSE KeysAfter(CHOOSE x \in keys : \A y \in keys : x = y \/ StrLess(x, y), keys)

MapValues(clusterMap, keys) == [i \in 1..Len(keys) |-> clusterMap[keys[i]]]
ClustersOf(clusterMap) == MapValues(clusterMap, KeysAscending(DOMAIN clusterMap))

groupIntoClusters(h, ts) == ClustersOf(ClusterMapLoop(h, ts, 1, <<>>))

\* verify(maxN): the loop over m = first..maxN, threading heap and cache.
RECURSIVE VerifyLoop(_, _, _, _)
VerifyAt(g, m, maxN) ==
    IF Len(g.result) # A000081[m + 1]
    THEN [heap |-> g.heap, cache |-> g.cache, result |-> FALSE]
    ELSE IF Len(groupIntoClusters(g.heap, g.result)) # A000055[m + 1]
    THEN [heap |-> g.heap, cache |-> g.cache, result |-> FALSE]
    ELSE VerifyLoop(g.heap, g.cache, m + 1, maxN)
VerifyLoop(h, c, m, maxN) ==
    IF m > maxN THEN [heap |-> h, cache |-> c, result |-> TRUE]
    ELSE VerifyAt(generate(h, c, m), m, maxN)

verify(h, c, maxN) == VerifyLoop(h, c, 1, maxN)

\* ------------------------------------------------------ SystemTreeMapping
\* getSystemTrees that clamps instead of refusing: a level outside 0..10 is
\* served as level 0.
getSystemTreesClamped(h, c, systemLevel) ==
    IF systemLevel < 0 \/ systemLevel > 10
    THEN generate(h, c, 1)
    ELSE generate(h, c, systemLevel + 1)
getSystemTrees(h, c, systemLevel) ==
    IF systemLevel < 0 \/ systemLevel > 10
    THEN [heap |-> h, cache |-> c, result |-> <<>>, rejected |-> 0]
    ELSE generate(h, c, systemLevel + 1)

\* static_cast<size_t>(int): a negative int wraps to 2^64 + x, kept here as
\* the record [twoTo64Plus |-> x] (the number itself does not fit TLC's
\* integers).
ToSizeT(x) == IF x >= 0 THEN x ELSE [twoTo64Plus |-> x]

\* auto trees = getSystemTrees(level); return groupIntoClusters(trees)
ClustersOfTrees(g) ==
    [heap |-> g.heap, cache |-> g.cache,
     result |-> groupIntoClusters(g.heap, g.result)]
getSystemClusters(h, c, systemLevel) ==
    ClustersOfTrees(getSystemTrees(h, c, systemLevel))

\* getSummary: g is what getSystemTrees returned, cl the clusters of g.result.
\* SummaryWith that reports the node count of the level's trees:
\* summary.nodeCount = systemLevel + 1.
SummaryWithTreeNodes(g, systemLevel, cl) ==
    [heap |-> g.heap, cache |-> g.cache,
     result |-> [level |-> systemLevel,
                 nodeCount |-> ToSizeT(systemLevel + 1),
                 termCount |-> Len(g.result),
                 treeCanonicals |-> [i \in 1..Len(g.result) |->
                                        canonical(g.heap, g.result[i])],
                 clusterCount |-> Len(cl),
                 clusterSizes |-> [i \in 1..Len(cl) |-> Len(cl[i])]]]
SummaryWith(g, systemLevel, cl) ==
    [heap |-> g.heap, cache |-> g.cache,
     result |-> [level |-> systemLevel,
                 nodeCount |-> ToSizeT(systemLevel),
                 termCount |-> Len(g.result),
                 treeCanonicals |-> [i \in 1..Len(g.result) |->
                                        canonical(g.heap, g.result[i])],
                 clusterCount |-> Len(cl),
                 clusterSizes |-> [i \in 1..Len(cl) |-> Len(cl[i])]]]
SummaryOf(g, systemLevel) ==
    SummaryWith(g, systemLevel, groupIntoClusters(g.heap, g.result))
getSummary(h, c, systemLevel) ==
    SummaryOf(getSystemTrees(h, c, systemLevel), systemLevel)


\* -------------------------------------------------------- util (system.cpp)
\* The tables local to termCountForLevel and clusterCountForLevel.
utilA000081 == <<0, 1, 1, 2, 4, 9, 20, 48, 115, 286, 719, 1842>>
utilA000055 == <<1, 1, 1, 1, 2, 3, 6, 11, 23, 47, 106, 235>>
\* array[level + 1] there is the entry at position level + 2 here.
termCountForLevel(level) ==
    IF level < 0 \/ level > 10 THEN 0 ELSE utilA000081[level + 2]
clusterCountForLevel(level) ==
    IF level < 0 \/ level > 10 THEN 0 ELSE utilA000055[level + 2]
nodeCountForLevel(level) == IF level < 0 THEN 0 ELSE level


\* ------------------------------------------------- terms.hpp (cosmic::terms)
\* The terms module has a tree engine of its own.  Its TreeNode, RootedTree()
\* and RootedTree::canonicalString / collectNodes / operator== and its
\* copyNode are, statement for statement, those of trees.hpp (public fields
\* instead of setters), so TreeNode, NewRootedTree, canonical, allNodes,
\* TreeEq, copyNode and AttachChild model them as well.  Its generator keeps
\* no cache; st is its running state [heap, result].
RECURSIVE termsGenerate(_, _)
RECURSIVE termsGeneratePartitions(_, _, _, _)
RECURSIVE termsPartLoop(_, _, _, _)
RECURSIVE termsSubtreeSets(_, _, _, _)
RECURSIVE termsCombinations(_, _, _, _)
RECURSIVE termsIndexLoop(_, _, _, _, _)
RECURSIVE termsAssemble(_, _, _, _, _, _)
RECURSIVE termsBuildLoop(_, _, _, _)

\* generateCombinationsRecursive: the index vectors pushed to result, in
\* order; indices and pos are 0-based as in the source.
termsCombinations(sets, partition, indices, pos) ==
    IF pos = Len(sets) THEN <<indices>>
    ELSE termsIndexLoop(sets, partition, indices, pos,
                        IF pos > 0 /\ partition[pos + 1] = partition[pos]
                        THEN indices[pos] ELSE 0)
termsIndexLoop(sets, partition, indices, pos, i) ==
    IF i >= Len(sets[pos + 1]) THEN <<>>
    ELSE termsCombinations(sets, partition, [indices EXCEPT ![pos + 1] = i], pos + 1)
         \o termsIndexLoop(sets, partition, indices, pos, i + 1)

\* The loop of buildTreesFromPartition over one combo: subtree =
\* copyTree(subtreeSets[i][combo[i]], nodeId); subtree->parent = root;
\* root->children.push_back(subtree).
termsAssembleNext(subtree, sets, combo, i, root) ==
    Then(Len(subtree.heap),
         termsAssemble(AttachChild(subtree.heap, root, subtree.node),
                       sets, combo, i + 1, root, subtree.nextId))
termsAssemble(h, sets, combo, i, root, nodeId) ==
    IF i > Len(combo) THEN h
    ELSE termsAssembleNext(copyNode(h, sets[i][combo[i] + 1], nodeId),
                           sets, combo, i, root)

\* for (const auto& combo : combinations): build, push unless found.
termsBuildNext(s1, sets, combos, j) ==
    Then(Len(s1.heap), termsBuildLoop(s1, sets, combos, j + 1))
termsBuildLoop(st, sets, combos, j) ==
    IF j > Len(combos) THEN st
    ELSE termsBuildNext(
             PushUnlessDuplicate(
                 st,
                 termsAssemble(MakeNode(st.heap, 0), sets, combos[j], 1,
                               Len(st.heap) + 1, 1),
                 Len(st.heap) + 1),
             sets, combos, j)

\* subtreeSets.push_back(generate(size)): every set is generated afresh.
termsSubtreeSetsNext(g, st, partition, i, sets) ==
    Then(Len(g.heap),
         termsSubtreeSets([st EXCEPT !.heap = g.heap], partition, i + 1,
                          Append(sets, g.result)))
termsSubtreeSets(st, partition, i, sets) ==
    IF i > Len(partition) THEN [st |-> st, sets |-> sets]
    ELSE termsSubtreeSetsNext(termsGenerate(st.heap, partition[i]),
                              st, partition, i, sets)

termsBuildWith(s, partition) ==
    termsBuildLoop(s.st, s.sets,
                   termsCombinations(s.sets, partition,
                                     [i \in 1..Len(partition) |-> 0], 0),
                   1)
termsBuildTreesFromPartition(st, partition) ==
    IF partition = <<>>
    THEN PushTree(st, NewRootedTree(st.heap))
    ELSE termsBuildWith(termsSubtreeSets(st, partition, 1, <<>>), partition)

termsGeneratePartitions(st, remaining, maxPart, partition) ==
    IF remaining = 0 THEN termsBuildTreesFromPartition(st, partition)
    ELSE termsPartLoop(st, remaining, Min2(remaining, maxPart), partition)
termsPartNext(s1, remaining, part, partition) ==
    Then(Len(s1.heap), termsPartLoop(s1, remaining, part - 1, partition))
termsPartLoop(st, remaining, part, partition) ==
    IF part < 1 THEN st
    ELSE termsPartNext(termsGeneratePartitions(st, remaining - part, part,
                                               Append(partition, part)),
                       remaining, part, partition)

termsGenerate(h, m) ==
    IF m <= 0 THEN [heap |-> h, result |-> <<>>, rejected |-> 0]
    ELSE IF m = 1
    THEN PushTree([heap |-> h, result |-> <<>>, rejected |-> 0], NewRootedTree(h))
    ELSE termsGeneratePartitions([heap |-> h, result |-> <<>>, rejected |-> 0], m - 1, m - 1, <<>>)

\* terms::UnrootedTree::rerootAt: "return representative_;  // Placeholder".
termsRerootAt(representative, newRoot) == representative

\* allRootings: one rooting per node, then the duplicates (by operator==)
\* are removed.
RECURSIVE termsUnique(_, _, _, _)
termsUnique(h, rootings, i, unique) ==
    IF i > Len(rootings) THEN unique
    ELSE termsUnique(h, rootings, i + 1,
                     IF \E u \in 1..Len(unique) : TreeEq(h, unique[u], rootings[i])
                     THEN unique ELSE Append(unique, rootings[i]))
termsRootings(representative, nodes) ==
    [i \in 1..Len(nodes) |-> termsRerootAt(representative, nodes[i])]
termsAllRootings(h, representative) ==
    termsUnique(h, termsRootings(representative, allNodes(h, representative)), 1, <<>>)

\* sameClass(a, b): some rooting of a equals b.
termsSameClassIn(h, rootings, y) ==
    \E r \in 1..Len(rootings) : TreeEq(h, rootings[r], y)
termsSameClass(h, x, y) == termsSameClassIn(h, termsAllRootings(h, x), y)

\* terms::FlipTransform::groupIntoClusters: the first unassigned tree opens
\* a cluster and takes every later unassigned tree of its class.
RECURSIVE termsPick(_, _, _)
termsPick(ts, js, j) ==
    IF j > Len(ts) THEN <<>>
    ELSE (IF j \in js THEN <<ts[j]>> ELSE <<>>) \o termsPick(ts, js, j + 1)
RECURSIVE termsGroupLoop(_, _, _, _, _)
termsGroupTake(h, ts, i, assigned, clusters, js) ==
    termsGroupLoop(h, ts, i + 1, assigned \cup {i} \cup js,
                   Append(clusters, <<ts[i]>> \o termsPick(ts, js, 1)))
termsGroupLoop(h, ts, i, assigned, clusters) ==
    IF i > Len(ts) THEN clusters
    ELSE IF i \in assigned THEN termsGroupLoop(h, ts, i + 1, assigned, clusters)
    ELSE termsGroupTake(h, ts, i, assigned, clusters,
                        {j \in (i + 1)..Len(ts) :
                            j \notin assigned /\ termsSameClass(h, ts[i], ts[j])})
termsGroupIntoClusters(h, ts) == termsGroupLoop(h, ts, 1, {}, <<>>)

\* terms::FlipTransform::clusterCount
termsClustersOf(g) == termsGroupIntoClusters(g.heap, g.result)
termsClusterCount(h, m) == Len(termsClustersOf(termsGenerate(h, m)))


\* System5Term::treeStructure of the 20 entries of getSystem5Terms(), in
\* order, lp and rp spelling the two bracket characters.
lp == LParen
rp == RParen
getSystem5Terms ==
    <<
      <<lp, lp, lp, lp, lp, rp, rp, rp, rp, rp>>,   \* 1: "((((()))))"
      <<lp, lp, lp, lp, lp, rp, rp, rp, rp, rp>>,   \* 2: "((((()))))"
      <<lp, lp, rp, lp, rp, lp, rp, lp, lp, rp, rp, rp>>,   \* 3: "(()()()(()))"
      <<lp, lp, rp, lp, rp, lp, rp, lp, lp, rp, rp, rp>>,   \* 4: "(()()()(()))"
      <<lp, lp, lp, rp, rp, lp, lp, rp, rp, lp, rp, rp>>,   \* 5: "((())(())())"
      <<lp, lp, lp, rp, rp, lp, lp, rp, rp, lp, rp, rp>>,   \* 6: "((())(())())"
      <<lp, lp, lp, rp, lp, rp, rp, lp, lp, rp, rp, rp>>,   \* 7: "((()())(()))"
      <<lp, lp, lp, lp, rp, rp, rp, lp, lp, rp, rp, rp>>,   \* 8: "(((()))(()))"
      <<lp, lp, lp, lp, rp, rp, rp, lp, lp, rp, rp, rp>>,   \* 9: "(((()))(()))"
      <<lp, lp, lp, rp, rp, lp, lp, rp, lp, rp, rp, rp>>,   \* 10: "((())(()()))"
      <<lp, lp, lp, rp, lp, rp, lp, rp, rp, lp, rp, rp>>,   \* 11: "((()()())())"
      <<lp, lp, lp, rp, lp, lp, rp, rp, rp, lp, rp, rp>>,   \* 12: "((()(()))())"
      <<lp, lp, lp, rp, lp, rp, rp, lp, lp, rp, rp, rp>>,   \* 13: "((()())(()))"
      <<lp, lp, lp, lp, rp, rp, lp, rp, rp, lp, rp, rp>>,   \* 14: "(((())())())"
      <<lp, lp, lp, rp, rp, lp, lp, rp, lp, rp, rp, rp>>,   \* 15: "((())(()()))"
      <<lp, lp, lp, rp, lp, lp, rp, rp, lp, rp, rp, rp>>,   \* 16: "((()(())()))"
      <<lp, lp, lp, rp, lp, rp, rp, lp, rp, lp, rp, rp>>,   \* 17: "((()())()())"
      <<lp, lp, lp, lp, rp, rp, rp, lp, rp, lp, rp, rp>>,   \* 18: "(((()))()())"
      <<lp, lp, lp, rp, rp, lp, rp, lp, rp, lp, rp, rp>>,   \* 19: "((())()()())"
      <<lp, lp, rp, lp, rp, lp, rp, lp, rp, lp, rp, rp>>   \* 20: "(()()()()())"
    >>


\* ------------------------------------------- CreativeProcess (operations.hpp)
\* A CreativeProcess is its three members; this is the object after
\* construction (position_ = 1, no shock applied).
CreativeProcess ==
    [position_ |-> 1, shock_applied_3_ |-> FALSE, shock_applied_6_ |-> FALSE]

isComplete(p) == p.position_ = 9

\* A needsShock that knows the first shock point only.
needsShockFirstOnly(p) == p.position_ = 3 /\ ~p.shock_applied_3_

needsShock(p) ==
    \/ p.position_ = 3 /\ ~p.shock_applied_3_
    \/ p.position_ = 6 /\ ~p.shock_applied_6_

\* A switch that walks the hexad 1-4-2-8-5-7 and leaves out the triangle.
advanceSwitchHexad(position_) ==
    CASE position_ = 1 -> 4
      [] position_ = 4 -> 2
      [] position_ = 2 -> 8
      [] position_ = 8 -> 5
      [] position_ = 5 -> 7
      [] position_ = 7 -> 1
      [] OTHER -> position_

\* The switch of advance(): the position that follows position_.
advanceSwitch(position_) ==
    CASE position_ = 1 -> 4
      [] position_ = 4 -> 2
      [] position_ = 2 -> 3
      [] position_ = 3 -> 8
      [] position_ = 8 -> 5
      [] position_ = 5 -> 7
      [] position_ = 7 -> 6
      [] position_ = 6 -> 9
      [] OTHER -> position_

\* advance(), applyShock() and reset() give the object they leave and the
\* bool they return (reset returns nothing: TRUE stands for it).
advance(p) ==
    IF isComplete(p) THEN [this |-> p, result |-> FALSE]
    ELSE IF needsShock(p) THEN [this |-> p, result |-> FALSE]
    ELSE [this |-> [p EXCEPT !.position_ = advanceSwitch(p.position_)],
          result |-> TRUE]

\* An applyShock that knows the first shock point only.
applyShockFirstOnly(p) ==
    IF p.position_ = 3 /\ ~p.shock_applied_3_
    THEN [this |-> [p EXCEPT !.shock_applied_3_ = TRUE], result |-> TRUE]
    ELSE [this |-> p, result |-> FALSE]

applyShock(p) ==
    IF p.position_ = 3 /\ ~p.shock_applied_3_
    THEN [this |-> [p EXCEPT !.shock_applied_3_ = TRUE], result |-> TRUE]
    ELSE IF p.position_ = 6 /\ ~p.shock_applied_6_
    THEN [this |-> [p EXCEPT !.shock_applied_6_ = TRUE], result |-> TRUE]
    ELSE [this |-> p, result |-> FALSE]

reset(p) ==
    [this |-> [p EXCEPT !.position_ = 1, !.shock_applied_3_ = FALSE,
                        !.shock_applied_6_ = FALSE],
     result |-> TRUE]

\* terms::getCreativeProcessSequence().
getCreativeProcessSequence == <<1, 4, 2, 3, 8, 5, 7, 6, 9>>

\* What the caller of a CreativeProcess holds: pc is its position ("free":
\* it calls what it likes; "loop", "shock", "advance", "done": it runs the
\* loop of demonstrateCreativeProcess), op and result the last call and what
\* it returned, before the object as that call found it.  calls counts the
\* calls since construction or reset, driven those the loop made, visited
\* lists the positions taken and shocked the positions where applyShock
\* returned true.
NoRun ==
    [pc |-> "free", op |-> "new", result |-> TRUE, before |-> CreativeProcess,
     calls |-> 0, driven |-> 0, visited |-> <<1>>, shocked |-> {}]


\* --------------------------------------- Term, TermNavigator (operations.hpp)
\* A Term is its sub_terms_ and parent_ (name and description play no part
\* in navigation); terms live in a sequence of their own, address = index.
Term == [sub_terms_ |-> <<>>, parent_ |-> NULL]

addSubTerm(h, this, term) ==
    [h EXCEPT ![term].parent_ = this,
              ![this].sub_terms_ = Append(h[this].sub_terms_, term)]

TermNavigator(root) == [root_ |-> root, current_ |-> root]

\* goToParent() and goToChild(index) give the navigator they leave and the
\* bool they return; h holds the Term objects.
goToParent(h, nv) ==
    LET parent == h[nv.current_].parent_
    IN  IF parent # NULL
        THEN [this |-> nv, result |-> FALSE]
        ELSE [this |-> nv, result |-> FALSE]

goToChild(h, nv, index) ==
    LET children == h[nv.current_].sub_terms_
    IN  IF index >= 0 /\ index < Len(children)
        THEN [this |-> [nv EXCEPT !.current_ = children[index + 1]],
              result |-> TRUE]
        ELSE [this |-> nv, result |-> FALSE]

\* What the caller of a TermNavigator holds: the Term objects it made, the
\* navigator (this) once constructed, the last call (op), what it returned
\* and the current term as that call found it.
NoNavigator ==
    [heap |-> <<>>, this |-> TermNavigator(NULL), pc |-> "building",
     op |-> "none", result |-> FALSE, before |-> NULL]


\* ---------------------------------------------------------- fromCanonical
\* pos is 0-based as in the source: s[pos] there is s[pos + 1] here.
RECURSIVE parseCanonical(_, _, _, _)
RECURSIVE ParseKids(_, _, _, _, _)
\* if (child) { child->setParent(node); node->addChild(child); }
ParseNext(child, s, node) ==
    Then(Len(child.heap),
         ParseKids(AttachIfAny(child, node).heap, s, child.pos, child.nextId, node))
\* while (pos < length && s[pos] == '(') ...; then the closing bracket.
\* ParseKids that never skips the closing bracket.
ParseKidsNoClose(h, s, pos, nextId, node) ==
    IF pos < Len(s) /\ s[pos + 1] = LParen
    THEN ParseNext(parseCanonical(h, s, pos, nextId), s, node)
    ELSE [heap |-> h, node |-> node, nextId |-> nextId, pos |-> pos]
ParseKids(h, s, pos, nextId, node) ==
    IF pos < Len(s) /\ s[pos + 1] = LParen
    THEN ParseNext(parseCanonical(h, s, pos, nextId), s, node)
    ELSE [heap |-> h, node |-> node, nextId |-> nextId,
          pos |-> IF pos < Len(s) /\ s[pos + 1] = RParen THEN pos + 1 ELSE pos]
parseCanonical(h, s, pos, nextId) ==
    IF pos >= Len(s) \/ s[pos + 1] # LParen
    THEN [heap |-> h, node |-> NULL, nextId |-> nextId, pos |-> pos]
    ELSE ParseKids(MakeNode(h, nextId), s, pos + 1, nextId + 1, Len(h) + 1)

fromCanonical(h, s) == TreeOf(parseCanonical(h, s, 0, 0))

\* ----------------------------------------------------------- caller input
\* Strings that spell one tree: brackets balance and close only at the end.
Depth(s, i) ==
    Cardinality({j \in 1..i : s[j] = LParen}) - Cardinality({j \in 1..i : s[j] = RParen})
IsTreeString(s) ==
    /\ Len(s) >= 2
    /\ Depth(s, Len(s)) = 0
    /\ \A i \in 1..(Len(s) - 1) : Depth(s, i) > 0
TreeStrings ==
    UNION {{s \in [1..(2 * m) -> {LParen, RParen}] : IsTreeString(s)} : m \in 1..MaxCmp}

\* Every string over the two brackets, the empty one included.
BracketStrings == UNION {[1..m -> {LParen, RParen}] : m \in 0..MaxStr}

\* Parent tables on nodes 1..m with root 1: par[i] is the parent of node i,
\* and following parents from any node ends at the root.
RECURSIVE Ancestor(_, _, _)
Ancestor(par, i, steps) ==
    IF i = 1 \/ steps = 0 THEN i ELSE Ancestor(par, par[i], steps - 1)
ParentTables(m) ==
    {par \in [2..m -> 1..m] : \A i \in 2..m : Ancestor(par, i, m) = 1}

\* A caller assembling a tree through the TreeNode interface: one node per
\* table entry (ids 0..m-1), then addChild and setParent for every edge.
RECURSIVE MakeNodes(_, _, _)
MakeNodes(h, id, m) ==
    IF id >= m THEN h ELSE MakeNodes(MakeNode(h, id), id + 1, m)
RECURSIVE LinkNodes(_, _, _, _, _)
LinkNext(h, base, par, i, m) == Then(Len(h), LinkNodes(h, base, par, i + 1, m))
LinkNodes(h, base, par, i, m) ==
    IF i > m THEN h
    ELSE LinkNext(AttachChild(h, base + par[i], base + i), base, par, i, m)
buildFromParents(h, par, m) ==
    [heap |-> LinkNodes(MakeNodes(h, 0, m), Len(h), par, 2, m), node |-> Len(h) + 1]

\* Destruction of the nodes no shared_ptr keeps alive: everything above the
\* last node reachable from the given roots (temporaries are always the
\* most recent allocations).
SeqRange(s) == {s[i] : i \in 1..Len(s)}
CacheRoots(c) == UNION {SeqRange(c[x]) : x \in DOMAIN c}
Owned(h, roots) == UNION {SeqRange(allNodes(h, r)) : r \in roots}
Top(owned) == IF owned = {} THEN 0 ELSE CHOOSE x \in owned : \A y \in owned : y <= x
Live(h, roots) == SubSeq(h, 1, Top(Owned(h, roots)))

\* A SystemSummary before getSummary filled it.
NoSummary ==
    [level |-> 0, termCount |-> 0, clusterCount |-> 0, nodeCount |-> 0,
     treeCanonicals |-> <<>>, clusterSizes |-> <<>>]

\* The concurrent callers of generate and a caller that is not inside it.
Threads == 1..2
IdleThread == [pc |-> "out", n |-> 0, result |-> <<>>]

\* ------------------------------------------------------------------ state
\* heap, cache: the TreeNode objects and generate's static std::map.
\* The rest are the locals of the single caller: pc is its position, n the
\* argument it passed, trees / clusters the vectors it received, a and b the
\* trees it works on, k a loop index or the argument of a second call, str a
\* string and ok a bool it holds.
\* trees2 is a second vector of trees, summary a SystemSummary and terms a
\* vector of System5Term structure strings the caller received.  thr holds
\* the callers of the concurrent scenario: for each thread its position in
\* generate, its argument and the vector it computed.
\* process is a CreativeProcess object and run what its caller holds; nav is
\* a TermNavigator with the Term objects it walks and what its caller holds.
VARIABLES heap, cache, pc, n, trees, clusters, a, b, k, str, ok,
          trees2, summary, terms, thr, process, run, nav

vars == <<heap, cache, pc, n, trees, clusters, a, b, k, str, ok,
          trees2, summary, terms, thr, process, run, nav>>

\* The objects of operations.hpp, which no operation on trees touches.
objects == <<process, run, nav>>

\* Locals and threads an operation of the single caller does not touch.
rest == <<trees2, summary, terms, thr, objects>>

Init ==
    /\ heap = <<>>
    /\ cache = <<>>
    /\ pc = "idle"
    /\ n = 0
    /\ trees = <<>>
    /\ clusters = <<>>
    /\ a = NULL
    /\ b = NULL
    /\ k = 0
    /\ str = <<>>
    /\ ok = FALSE
    /\ trees2 = <<>>
    /\ summary = NoSummary
    /\ terms = <<>>
    /\ thr = [t \in Threads |-> IdleThread]
    /\ process = CreativeProcess
    /\ run = NoRun
    /\ nav = NoNavigator

\* The caller receives generate's result; heap and cache are as it left them.
Returned(g) ==
    /\ heap' = g.heap
    /\ cache' = g.cache
    /\ trees' = g.result

\* auto trees = RootedTreeGenerator::generate(m)
Generate ==
    /\ pc = "idle"
    /\ \E m \in 1..MaxN :
         /\ Returned(generate(heap, cache, m))
         /\ n' = m
    /\ pc' = "generated"
    /\ UNCHANGED <<clusters, a, b, k, str, ok, rest>>

\* auto trees = SystemTreeMapping::getSystemTrees(level)
GetSystemTrees ==
    /\ pc = "idle"
    /\ \E level \in 0..(MaxN - 1) :
         /\ Returned(getSystemTrees(heap, cache, level))
         /\ n' = level
    /\ pc' = "systemTrees"
    /\ UNCHANGED <<clusters, a, b, k, str, ok, rest>>

\* auto clusters = FlipTransform::groupIntoClusters(trees)
GroupIntoClusters ==
    /\ pc = "generated"
    /\ clusters' = groupIntoClusters(heap, trees)
    /\ pc' = "clustered"
    /\ UNCHANGED <<heap, cache, n, trees, a, b, k, str, ok, rest>>

\* bool ok = FlipTransform::verify(maxN)
Verified(v) ==
    /\ heap' = v.heap
    /\ cache' = v.cache
    /\ ok' = v.result
Verify ==
    /\ pc = "idle"
    /\ \E maxN \in 1..MaxN :
         /\ Verified(verify(heap, cache, maxN))
         /\ n' = maxN
    /\ pc' = "verified"
    /\ UNCHANGED <<trees, clusters, a, b, k, str, rest>>

\* bool ok = UnrootedTree::sameUnrootedClass(trees[i], trees[j])
SameUnrootedClass ==
    /\ pc = "generated"
    /\ \E i \in 1..Len(trees), j \in 1..Len(trees) :
         /\ a' = trees[i]
         /\ b' = trees[j]
         /\ ok' = sameUnrootedClass(heap, trees[i], trees[j])
    /\ pc' = "sameClass"
    /\ UNCHANGED <<heap, cache, n, trees, clusters, k, str, rest>>

\* UnrootedTree unrooted(trees[i]): the constructor enters
\* computeUnrootedCanonical with minCanonical = tree.canonical().
UnrootedBegin ==
    /\ pc = "generated"
    /\ \E i \in 1..Len(trees) :
         /\ a' = trees[i]
         /\ str' = canonical(heap, trees[i])
    /\ k' = 0
    /\ b' = NULL
    /\ pc' = "unrooting"
    /\ UNCHANGED <<heap, cache, n, trees, clusters, ok, rest>>

\* The heap without the tree rerooted in the previous iteration (destroyed
\* at the end of the loop body).
HeapWithoutRerooted == IF b = NULL THEN heap ELSE SubSeq(heap, 1, b - 1)

\* One iteration of its loop: b is the tree rerooted at the node at (0-based)
\* position k of allNodes.
Iterated(it) ==
    /\ heap' = it.heap
    /\ b' = it.rerooted
    /\ str' = it.minCanonical
UnrootedStep ==
    /\ pc = "unrooting"
    /\ k < Len(allNodes(heap, a))
    /\ Iterated(UnrootedIter(HeapWithoutRerooted, a,
                             allNodes(HeapWithoutRerooted, a)[k + 1], str))
    /\ k' = k + 1
    /\ UNCHANGED <<cache, pc, n, trees, clusters, a, ok, rest>>

\* The loop is over: canonical_ = minCanonical.
UnrootedEnd ==
    /\ pc = "unrooting"
    /\ k = Len(allNodes(heap, a))
    /\ heap' = HeapWithoutRerooted
    /\ b' = NULL
    /\ pc' = "unrooted"
    /\ UNCHANGED <<cache, n, trees, clusters, a, k, str, ok, rest>>

\* RootedTree b = RootedTree::fromCanonical(trees[i].canonical())
Parsed(r) ==
    /\ heap' = r.heap
    /\ b' = r.node
RoundTrip ==
    /\ pc = "generated"
    /\ \E i \in 1..Len(trees) :
         /\ a' = trees[i]
         /\ str' = canonical(heap, trees[i])
         /\ Parsed(fromCanonical(heap, canonical(heap, trees[i])))
    /\ pc' = "parsed"
    /\ UNCHANGED <<cache, n, trees, clusters, k, ok, rest>>

\* Two trees written down as bracket strings, then bool ok = (a == b).
Compared(r1, r2) ==
    /\ heap' = r2.heap
    /\ a' = r1.node
    /\ b' = r2.node
    /\ ok' = TreeEq(r2.heap, r1.node, r2.node)
SecondParsed(r1, s2) == Compared(r1, fromCanonical(r1.heap, s2))
CompareTrees ==
    /\ pc = "idle"
    /\ \E s1 \in TreeStrings, s2 \in TreeStrings :
         SecondParsed(fromCanonical(heap, s1), s2)
    /\ pc' = "compared"
    /\ UNCHANGED <<cache, n, trees, clusters, k, str, rest>>

\* A tree on n nodes assembled node by node, to look up in generate(n).
Built(t) ==
    /\ heap' = t.heap
    /\ a' = t.node
BuildTree ==
    /\ pc = "generated"
    /\ n <= MaxBuild
    /\ \E par \in ParentTables(n) : Built(buildFromParents(heap, par, n))
    /\ pc' = "built"
    /\ UNCHANGED <<cache, n, trees, clusters, b, k, str, ok, rest>>

\* The caller's locals go out of scope; the cache keeps what it holds.
Release ==
    /\ pc \notin {"idle", "unrooting"}
    /\ heap' = Live(heap, CacheRoots(cache))
    /\ pc' = "idle"
    /\ n' = 0
    /\ trees' = <<>>
    /\ clusters' = <<>>
    /\ a' = NULL
    /\ b' = NULL
    /\ k' = 0
    /\ str' = <<>>
    /\ ok' = FALSE
    /\ trees2' = <<>>
    /\ summary' = NoSummary
    /\ terms' = <<>>
    /\ UNCHANGED <<cache, thr, objects>>

\* One caller at a time, in four scenarios that share the generator and its
\* cache: generation, clustering and the facade (Spec); the unrooted engine
\* on pairs and single trees (SpecUnrooted); hand-assembled trees looked up
\* in generate's result (SpecBuild); hand-written trees compared (SpecCompare).
Next ==
    \/ Generate
    \/ GetSystemTrees
    \/ GroupIntoClusters
    \/ Verify
    \/ RoundTrip
    \/ Release

Spec == Init /\ [][Next]_vars

NextUnrooted ==
    \/ Generate
    \/ SameUnrootedClass
    \/ UnrootedBegin
    \/ UnrootedStep
    \/ UnrootedEnd
    \/ Release

SpecUnrooted == Init /\ [][NextUnrooted]_vars

NextBuild ==
    \/ Generate
    \/ BuildTree
    \/ Release

SpecBuild == Init /\ [][NextBuild]_vars

NextCompare ==
    \/ Generate
    \/ CompareTrees
    \/ Release

SpecCompare == Init /\ [][NextCompare]_vars

\* The facade and the generator called with any int: valid arguments, and
\* up to MaxBad below and above the supported range.
BadLevels == ((0 - MaxBad)..(0 - 1)) \cup (11..(10 + MaxBad))
AnyLevels == (0..(MaxN - 1)) \cup BadLevels

\* auto trees = RootedTreeGenerator::generate(m), m any int
GenerateAny ==
    /\ pc = "idle"
    /\ \E m \in (0 - MaxBad)..MaxN :
         /\ Returned(generate(heap, cache, m))
         /\ n' = m
    /\ pc' = "generatedAny"
    /\ UNCHANGED <<clusters, a, b, k, str, ok, rest>>

\* auto trees = SystemTreeMapping::getSystemTrees(level), level any int
GetSystemTreesAny ==
    /\ pc = "idle"
    /\ \E level \in AnyLevels :
         /\ Returned(getSystemTrees(heap, cache, level))
         /\ n' = level
    /\ pc' = "systemTreesAny"
    /\ UNCHANGED <<clusters, a, b, k, str, ok, rest>>

\* auto clusters = SystemTreeMapping::getSystemClusters(level)
ClustersReturned(g) ==
    /\ heap' = g.heap
    /\ cache' = g.cache
    /\ clusters' = g.result
GetSystemClusters ==
    /\ pc = "idle"
    /\ \E level \in AnyLevels :
         /\ ClustersReturned(getSystemClusters(heap, cache, level))
         /\ n' = level
    /\ pc' = "systemClusters"
    /\ UNCHANGED <<trees, a, b, k, str, ok, rest>>

\* auto summary = SystemTreeMapping::getSummary(level)
SummaryReturned(g) ==
    /\ heap' = g.heap
    /\ cache' = g.cache
    /\ summary' = g.result
GetSummary ==
    /\ pc = "idle"
    /\ \E level \in AnyLevels :
         /\ SummaryReturned(getSummary(heap, cache, level))
         /\ n' = level
    /\ pc' = "summary"
    /\ UNCHANGED <<trees, clusters, a, b, k, str, ok, trees2, terms, thr, objects>>

NextFacade ==
    \/ GenerateAny
    \/ GetSystemTreesAny
    \/ GetSystemClusters
    \/ GetSummary
    \/ Release

SpecFacade == Init /\ [][NextFacade]_vars


\* The caller, still holding trees = generate(n), calls generate(m) for the
\* same or another m: auto trees2 = RootedTreeGenerator::generate(m), k = m.
Regenerated(g) ==
    /\ heap' = g.heap
    /\ cache' = g.cache
    /\ trees2' = g.result
GenerateAgain ==
    /\ pc = "generated"
    /\ \E m \in 1..MaxN :
         /\ Regenerated(generate(heap, cache, m))
         /\ k' = m
    /\ pc' = "regenerated"
    /\ UNCHANGED <<n, trees, clusters, a, b, str, ok, summary, terms, thr, objects>>

\* RootedTreeGenerator::clearCache(): its body is a comment.
clearCache(c) == c
ClearCache ==
    /\ pc = "idle"
    /\ cache' = clearCache(cache)
    /\ pc' = "cleared"
    /\ UNCHANGED <<heap, n, trees, clusters, a, b, k, str, ok, rest>>

NextCache ==
    \/ Generate
    \/ GenerateAgain
    \/ GroupIntoClusters
    \/ ClearCache
    \/ Release

SpecCache == Init /\ [][NextCache]_vars


\* ------------------------------------------------------ concurrent callers
\* Threads call RootedTreeGenerator::generate(m) at the same time.  The
\* source takes no lock anywhere, so no step below waits for another thread.
\* A thread's position: "out" (not in generate), "find" (about to run
\* cache.find(n)), "finding" (inside it), "build" (cache miss, about to
\* build result), "insert" (about to run cache[n] = result), "inserting"
\* (inside it), "return".  The recursive calls made while building are taken
\* in one step with the build.
callerLocals == <<pc, n, trees, clusters, a, b, k, str, ok, trees2, summary, terms,
                  objects>>

\* The body of generate between the cache miss and cache[n] = result.
buildResult(h, c, m) ==
    IF m = 1
    THEN PushTree([heap |-> h, cache |-> c, result |-> <<>>, rejected |-> 0], NewRootedTree(h))
    ELSE generateFromPartitions([heap |-> h, cache |-> c, result |-> <<>>, rejected |-> 0],
                                m - 1, m - 1, <<>>)

\* Roots held by the vectors of the threads other than t.
ThreadRoots(t) == UNION {SeqRange(thr[u].result) : u \in Threads \ {t}}

\* generate(m) is entered; m > 0, so the first line does not return.
Call(t) ==
    /\ thr[t].pc = "out"
    /\ \E m \in 1..MaxConcN :
         thr' = [thr EXCEPT ![t] = [pc |-> "find", n |-> m, result |-> <<>>]]
    /\ UNCHANGED <<heap, cache, callerLocals>>

\* auto it = cache.find(n) begins ...
FindBegin(t) ==
    /\ thr[t].pc = "find"
    /\ thr' = [thr EXCEPT ![t].pc = "finding"]
    /\ UNCHANGED <<heap, cache, callerLocals>>

\* ... and ends: a hit copies it->second, a miss goes on to build.
FindEnd(t) ==
    /\ thr[t].pc = "finding"
    /\ thr' = [thr EXCEPT ![t] =
                  IF thr[t].n \in DOMAIN cache
                  THEN [pc |-> "return", n |-> thr[t].n, result |-> cache[thr[t].n]]
                  ELSE [pc |-> "build", n |-> thr[t].n, result |-> <<>>]]
    /\ UNCHANGED <<heap, cache, callerLocals>>

\* result is built; the nested generate calls fill the cache for the parts.
Built2(t, st) ==
    /\ heap' = st.heap
    /\ cache' = st.cache
    /\ thr' = [thr EXCEPT ![t] = [pc |-> "insert", n |-> thr[t].n, result |-> st.result]]
Build(t) ==
    /\ thr[t].pc = "build"
    /\ Built2(t, buildResult(heap, cache, thr[t].n))
    /\ UNCHANGED callerLocals

\* cache[n] = result begins ...
InsertBegin(t) ==
    /\ thr[t].pc = "insert"
    /\ thr' = [thr EXCEPT ![t].pc = "inserting"]
    /\ UNCHANGED <<heap, cache, callerLocals>>

\* ... and ends: the entry for n holds this thread's vector.
InsertEnd(t) ==
    /\ thr[t].pc = "inserting"
    /\ cache' = [x \in DOMAIN cache \cup {thr[t].n} |->
                    IF x = thr[t].n THEN thr[t].result ELSE cache[x]]
    /\ thr' = [thr EXCEPT ![t].pc = "return"]
    /\ UNCHANGED <<heap, callerLocals>>

\* return result: the caller drops the vector.
Return(t) ==
    /\ thr[t].pc = "return"
    /\ heap' = Live(heap, CacheRoots(cache) \cup ThreadRoots(t))
    /\ thr' = [thr EXCEPT ![t] = IdleThread]
    /\ UNCHANGED <<cache, callerLocals>>

NextConcurrent ==
    \E t \in Threads :
        \/ Call(t)
        \/ FindBegin(t)
        \/ FindEnd(t)
        \/ Build(t)
        \/ InsertBegin(t)
        \/ InsertEnd(t)
        \/ Return(t)

SpecConcurrent == Init /\ [][NextConcurrent]_vars


\* ------------------------------------------------- a caller of TreeNode
\* A caller that works on TreeNode objects directly: it makes up to MaxNodes
\* nodes and calls addChild and setParent on any of them, up to MaxLinks
\* addChild calls in all.
RECURSIVE LinkCount(_, _)
LinkCount(h, i) ==
    IF i > Len(h) THEN 0 ELSE Len(h[i].children) + LinkCount(h, i + 1)

\* auto node = std::make_shared<TreeNode>(id)
NewNode ==
    /\ pc \in {"idle", "nodes"}
    /\ Len(heap) < MaxNodes
    /\ heap' = MakeNode(heap, Len(heap))
    /\ pc' = "nodes"
    /\ UNCHANGED <<cache, n, trees, clusters, a, b, k, str, ok, rest>>

\* a->addChild(b) for any two distinct nodes
AddChild ==
    /\ pc = "nodes"
    /\ LinkCount(heap, 1) < MaxLinks
    /\ \E p \in 1..Len(heap), c \in 1..Len(heap) :
         /\ p # c
         /\ heap' = addChild(heap, p, c)
         /\ a' = p
         /\ b' = c
    /\ pc' = "attached"
    /\ UNCHANGED <<cache, n, trees, clusters, k, str, ok, rest>>

\* b->setParent(a) for any two of the nodes
SetParent ==
    /\ pc = "nodes"
    /\ \E p \in 1..Len(heap), c \in 1..Len(heap) :
         /\ heap' = setParent(heap, c, p)
         /\ a' = p
         /\ b' = c
    /\ pc' = "parentSet"
    /\ UNCHANGED <<cache, n, trees, clusters, k, str, ok, rest>>

\* The caller goes on with the nodes it has.
Proceed ==
    /\ pc \in {"attached", "parentSet"}
    /\ pc' = "nodes"
    /\ a' = NULL
    /\ b' = NULL
    /\ UNCHANGED <<heap, cache, n, trees, clusters, k, str, ok, rest>>

NextNodes ==
    \/ NewNode
    \/ AddChild
    \/ SetParent
    \/ Proceed
    \/ Release

SpecNodes == Init /\ [][NextNodes]_vars


\* RootedTree t;  (the default constructor)
Constructed(r) ==
    /\ heap' = r.heap
    /\ a' = r.node
NewTree ==
    /\ pc = "idle"
    /\ Constructed(NewRootedTree(heap))
    /\ pc' = "new"
    /\ UNCHANGED <<cache, n, trees, clusters, b, k, str, ok, rest>>

\* RootedTree b = trees[i].copy()
Copied(r) ==
    /\ heap' = r.heap
    /\ b' = r.node
CopyTree ==
    /\ pc = "generated"
    /\ \E i \in 1..Len(trees) :
         /\ a' = trees[i]
         /\ Copied(copy(heap, trees[i]))
    /\ pc' = "copied"
    /\ UNCHANGED <<cache, n, trees, clusters, k, str, ok, rest>>

\* Every way the library hands out a tree: the default constructor,
\* generate, copy, fromCanonical and the rerooting of the unrooted engine.
NextTrees ==
    \/ NewTree
    \/ Generate
    \/ CopyTree
    \/ RoundTrip
    \/ UnrootedBegin
    \/ UnrootedStep
    \/ UnrootedEnd
    \/ Release

SpecTrees == Init /\ [][NextTrees]_vars


\* Freed memory: a destroyed node leaves its slot (addresses of the other
\* nodes do not move); slots above the last live node are dropped.
FreedNode == [id |-> 0 - 1, children |-> <<>>, parent |-> NULL]
SweepTo(h, owned) ==
    [i \in 1..Top(owned) |-> IF i \in owned THEN h[i] ELSE FreedNode]
Sweep(h, roots) == SweepTo(h, Owned(h, roots))

\* ------------------------------------------------- a caller of cosmic::terms
\* auto trees = terms::RootedTreeGenerator::generate(m); the sets generated
\* for the parts are gone when it returns.
TermsReturned(g) ==
    /\ heap' = Sweep(g.heap, CacheRoots(cache) \cup SeqRange(g.result))
    /\ trees' = g.result
TermsGenerate ==
    /\ pc = "idle"
    /\ \E m \in 1..MaxTermsN :
         /\ TermsReturned(termsGenerate(heap, m))
         /\ n' = m
    /\ pc' = "termsGenerated"
    /\ UNCHANGED <<cache, clusters, a, b, k, str, ok, rest>>

\* bool ok = terms::UnrootedTree::sameClass(trees[i], trees[j])
TermsSameClass ==
    /\ pc = "termsGenerated"
    /\ \E i \in 1..Len(trees), j \in 1..Len(trees) :
         /\ a' = trees[i]
         /\ b' = trees[j]
         /\ ok' = termsSameClass(heap, trees[i], trees[j])
    /\ pc' = "termsSameClass"
    /\ UNCHANGED <<heap, cache, n, trees, clusters, k, str, rest>>

\* size_t k = terms::FlipTransform::clusterCount(m); every tree it made is
\* gone when it returns.
TermsClusterCount ==
    /\ pc = "idle"
    /\ \E m \in 1..MaxTermsN :
         /\ k' = termsClusterCount(heap, m)
         /\ n' = m
    /\ pc' = "termsCounted"
    /\ UNCHANGED <<heap, cache, trees, clusters, a, b, str, ok, rest>>

\* auto terms = terms::getSystem5Terms(), of which the caller keeps the
\* treeStructure strings.
GetSystem5Terms ==
    /\ pc = "idle"
    /\ terms' = getSystem5Terms
    /\ pc' = "system5"
    /\ UNCHANGED <<heap, cache, n, trees, clusters, a, b, k, str, ok,
                   trees2, summary, thr, objects>>

NextTerms ==
    \/ TermsGenerate
    \/ TermsSameClass
    \/ TermsClusterCount
    \/ GetSystem5Terms
    \/ Release

SpecTerms == Init /\ [][NextTerms]_vars


\* ------------------------------------------- a caller of CreativeProcess
\* The caller's record after a call: the object as found, the call made, what
\* it returned, the position taken if the call moved the process.
AfterCall(r, op, ret) ==
    [r EXCEPT !.op = op, !.result = ret.result, !.before = process,
              !.calls = r.calls + 1,
              !.visited = IF ret.this.position_ # process.position_
                          THEN Append(r.visited, ret.this.position_)
                          ELSE r.visited,
              !.shocked = IF op = "applyShock" /\ ret.result
                          THEN r.shocked \cup {process.position_}
                          ELSE r.shocked]

processFrame == <<heap, cache, pc, n, trees, clusters, a, b, k, str, ok,
                  trees2, summary, terms, thr, nav>>

\* Free calls, in any order, at most MaxCalls between two resets.
Advance ==
    /\ run.pc = "free"
    /\ run.calls < MaxCalls
    /\ process' = advance(process).this
    /\ run' = AfterCall(run, "advance", advance(process))
    /\ UNCHANGED processFrame

ApplyShock ==
    /\ run.pc = "free"
    /\ run.calls < MaxCalls
    /\ process' = applyShock(process).this
    /\ run' = AfterCall(run, "applyShock", applyShock(process))
    /\ UNCHANGED processFrame

Reset ==
    /\ run.pc \in {"free", "done"}
    /\ process' = reset(process).this
    /\ run' = [NoRun EXCEPT !.op = "reset", !.before = process,
                            !.visited = <<reset(process).this.position_>>]
    /\ UNCHANGED processFrame

\* demonstrateCreativeProcess's loop, entered with the object in whatever
\* state the free calls left it:
\*   while (!isComplete()) { if (needsShock()) applyShock(); advance(); }
Drive ==
    /\ run.pc = "free"
    /\ run' = [run EXCEPT !.pc = "loop", !.driven = 0]
    /\ UNCHANGED <<process, processFrame>>

DriverTest ==
    /\ run.pc = "loop"
    /\ run' = [run EXCEPT !.pc = IF isComplete(process) THEN "done"
                                 ELSE IF needsShock(process) THEN "shock"
                                 ELSE "advance"]
    /\ UNCHANGED <<process, processFrame>>

DriverShock ==
    /\ run.pc = "shock"
    /\ process' = applyShock(process).this
    /\ run' = [AfterCall(run, "applyShock", applyShock(process))
                 EXCEPT !.pc = "advance", !.driven = run.driven + 1]
    /\ UNCHANGED processFrame

DriverAdvance ==
    /\ run.pc = "advance"
    /\ process' = advance(process).this
    /\ run' = [AfterCall(run, "advance", advance(process))
                 EXCEPT !.pc = "loop", !.driven = run.driven + 1]
    /\ UNCHANGED processFrame

DriverStep == DriverTest \/ DriverShock \/ DriverAdvance

NextProcess ==
    \/ Advance
    \/ ApplyShock
    \/ Reset
    \/ Drive
    \/ DriverTest
    \/ DriverShock
    \/ DriverAdvance

SpecProcess == Init /\ [][NextProcess]_vars

\* The loop is straight-line code of one thread: once entered it keeps
\* running.  Nothing obliges the caller to make a free call or to enter it.
SpecDriver == Init /\ [][NextProcess]_vars /\ WF_vars(DriverStep)


\* ------------------------------------------- a caller of TermNavigator
\* The caller makes up to MaxTerms terms, nests later ones under earlier
\* ones with addSubTerm, constructs a navigator on one of them and walks.
navFrame == <<heap, cache, pc, n, trees, clusters, a, b, k, str, ok,
              trees2, summary, terms, thr, process, run>>

NewTerm ==
    /\ nav.pc = "building"
    /\ Len(nav.heap) < MaxTerms
    /\ nav' = [nav EXCEPT !.heap = Append(nav.heap, Term)]
    /\ UNCHANGED navFrame

AddSubTerm ==
    /\ nav.pc = "building"
    /\ \E this \in DOMAIN nav.heap : \E term \in DOMAIN nav.heap :
          /\ this < term
          /\ nav.heap[term].parent_ = NULL
          /\ nav' = [nav EXCEPT !.heap = addSubTerm(nav.heap, this, term)]
    /\ UNCHANGED navFrame

NewNavigator ==
    /\ nav.pc = "building"
    /\ \E root \in DOMAIN nav.heap :
          nav' = [nav EXCEPT !.this = TermNavigator(root), !.pc = "navigating",
                             !.op = "TermNavigator", !.before = NULL]
    /\ UNCHANGED navFrame

\* The caller's record after a call on the navigator.
AfterNav(op, ret) ==
    [nav EXCEPT !.this = ret.this, !.op = op, !.result = ret.result,
                !.before = nav.this.current_]

GoToChild ==
    /\ nav.pc = "navigating"
    /\ \E index \in -1..MaxTerms :
          nav' = AfterNav("goToChild", goToChild(nav.heap, nav.this, index))
    /\ UNCHANGED navFrame

GoToParent ==
    /\ nav.pc = "navigating"
    /\ nav' = AfterNav("goToParent", goToParent(nav.heap, nav.this))
    /\ UNCHANGED navFrame

NextNavigator ==
    \/ NewTerm
    \/ AddSubTerm
    \/ NewNavigator
    \/ GoToChild
    \/ GoToParent

SpecNavigator == Init /\ [][NextNavigator]_vars


\* ------------------------------------------- watching the duplicate check
\* generate(m) as in Generate, the caller noting in k how many candidates
\* the duplicate check turned away during the call.
GenerateCounting ==
    /\ pc = "idle"
    /\ \E m \in 1..MaxDedupN :
         /\ Returned(generate(heap, cache, m))
         /\ k' = generate(heap, cache, m).rejected
         /\ n' = m
    /\ pc' = "generated"
    /\ UNCHANGED <<clusters, a, b, str, ok, rest>>

NextDedup ==
    \/ GenerateCounting
    \/ CopyTree
    \/ Release

SpecDedup == Init /\ [][NextDedup]_vars


\* ------------------------------------------- clustering any vector of trees
\* auto clusters = FlipTransform::groupIntoClusters(trees), trees whatever
\* generate or getSystemTrees returned (empty for an argument out of range).
GroupAnyIntoClusters ==
    /\ pc \in {"generatedAny", "systemTreesAny"}
    /\ clusters' = groupIntoClusters(heap, trees)
    /\ pc' = "clusteredAny"
    /\ UNCHANGED <<heap, cache, n, trees, a, b, k, str, ok, rest>>

NextPartition ==
    \/ GenerateAny
    \/ GetSystemTreesAny
    \/ GroupAnyIntoClusters
    \/ GetSummary
    \/ Release

SpecPartition == Init /\ [][NextPartition]_vars


\* ------------------------------------------- operations that build trees
\* A caller that holds generated trees while it copies them, reroots them,
\* clusters them and generates again.
NextFrame ==
    \/ Generate
    \/ GenerateAgain
    \/ CopyTree
    \/ GroupIntoClusters
    \/ UnrootedBegin
    \/ UnrootedStep
    \/ UnrootedEnd
    \/ Release

SpecFrame == Init /\ [][NextFrame]_vars


\* ------------------------------------------- a caller that changes a result
\* trees[i].root()->setId(Stamp): root() hands out the shared_ptr the tree
\* holds and setId is public.  Stamp is an id the library never assigns; the
\* caller does this once, while no node carries it.
Stamp == 0 - 1
SetId ==
    /\ pc = "generated"
    /\ \A x \in 1..Len(heap) : heap[x].id # Stamp
    /\ \E i \in 1..Len(trees) : heap' = setId(heap, trees[i], Stamp)
    /\ UNCHANGED <<cache, pc, n, trees, clusters, a, b, k, str, ok, rest>>

NextOwner ==
    \/ Generate
    \/ SetId
    \/ GenerateAgain
    \/ Release

SpecOwner == Init /\ [][NextOwner]_vars


\* ------------------------------------------- comparing trees of any origin
\* RootedTree a = fromCanonical(s1), b = fromCanonical(s2); bool ok = (a == b),
\* for any two strings over the brackets.
CompareAny ==
    /\ pc = "idle"
    /\ \E s1 \in BracketStrings, s2 \in BracketStrings :
         SecondParsed(fromCanonical(heap, s1), s2)
    /\ pc' = "comparedAny"
    /\ UNCHANGED <<cache, n, trees, clusters, k, str, rest>>

NextEquality ==
    \/ NewTree
    \/ Generate
    \/ CopyTree
    \/ CompareAny
    \/ Release

SpecEquality == Init /\ [][NextEquality]_vars


\* ------------------------------------------------- what the claims speak of
\* The reference counts of rooted and of unrooted trees on 1..11 nodes.
RootedCount == <<1, 1, 2, 4, 9, 20, 48, 115, 286, 719, 1842>>
UnrootedCount == <<1, 1, 1, 2, 3, 6, 11, 23, 47, 106, 235>>

\* A rooted tree with unordered children is the multiset of its children's
\* trees: two trees are isomorphic as rooted trees (a bijection of nodes
\* that maps root to root and parent-child pairs to parent-child pairs)
\* exactly when these nested multisets are equal.
BagOfFcn(f) ==
    [x \in {f[w] : w \in DOMAIN f} |-> Cardinality({w \in DOMAIN f : f[w] = x})]
RECURSIVE Abs(_, _)
Abs(h, node) ==
    BagOfFcn([i \in 1..Len(h[node].children) |-> Abs(h, h[node].children[i])])

\* The same tree as an undirected graph on `nodes` (edges = the pairs
\* parent-child of the children lists), seen from node v with the neighbour
\* `from` left out: the rooted tree obtained by hanging the graph at v.
Adjacent(h, v, w) ==
    \/ w \in SeqRange(h[v].children)
    \/ v \in SeqRange(h[w].children)
RECURSIVE AbsAt(_, _, _, _)
AbsAt(h, nodes, v, from) ==
    BagOfFcn([w \in {x \in nodes : x # from /\ Adjacent(h, v, x)} |->
                 AbsAt(h, nodes, w, v)])
NodeSet(h, root) == SeqRange(allNodes(h, root))

\* An adjacency-preserving bijection between the nodes of x and of y exists
\* exactly when y is x hung at one of x's nodes.
UnrootedIso(h, x, y) ==
    \E v \in NodeSet(h, x) : AbsAt(h, NodeSet(h, x), v, NULL) = Abs(h, y)

\* The tree with its child order kept: a sequence of child shapes.
RECURSIVE Shape(_, _)
Shape(h, node) == [i \in 1..Len(h[node].children) |-> Shape(h, h[node].children[i])]

\* C1: generate(n) returns exactly R(n) trees, R the A000081 reference
\* table, for every n from 1 up to MaxN.
C1_GenerateCount ==
    pc = "generated" => Len(trees) = RootedCount[n]
C1_Witness ==
    pc = "generated" /\ n >= 6 /\ Len(trees) = 20

\* C2: groupIntoClusters(generate(n)) returns exactly U(n) clusters, U the
\* A000055 reference table, for every n from 1 up to MaxN; and verify(maxN)
\* returns true.
C2_ClusterCount ==
    /\ pc = "clustered" => Len(clusters) = UnrootedCount[n]
    /\ pc = "verified" => ok
C2_Witness ==
    pc = "clustered" /\ n >= 6 /\ Len(clusters) = 6

\* C4: no two trees at different positions of generate(n)'s list have the
\* same canonical form.
C4_NoSharedCanonical ==
    pc = "generated" =>
        \A i \in 1..Len(trees), j \in 1..Len(trees) :
            i # j => canonical(heap, trees[i]) # canonical(heap, trees[j])
C4_Witness ==
    pc = "generated" /\ n >= 5 /\ Len(trees) >= 9

\* C5: every tree of generate(n) has n nodes, and every tree of
\* getSystemTrees(level) has level + 1 nodes.
C5_NodeCount ==
    /\ pc = "generated" =>
           \A i \in 1..Len(trees) : nodeCount(heap, trees[i]) = n
    /\ pc = "systemTrees" =>
           \A i \in 1..Len(trees) : nodeCount(heap, trees[i]) = n + 1
C5_Witness ==
    /\ pc = "systemTrees"
    /\ n >= 4
    /\ Len(trees) >= 9
    /\ \E i \in 1..Len(trees) : Len(heap[trees[i]].children) >= 2

\* C9: in the result of groupIntoClusters, two trees are in the same cluster
\* exactly when their unrooted signatures are equal.
SignaturesSeparate(sig) ==
    \A c1 \in 1..Len(clusters), c2 \in 1..Len(clusters) :
        \A i \in 1..Len(clusters[c1]), j \in 1..Len(clusters[c2]) :
            (c1 = c2) <=> (sig[clusters[c1][i]] = sig[clusters[c2][j]])
C9_ClustersBySignature ==
    pc = "clustered" =>
        SignaturesSeparate([t \in SeqRange(trees) |-> computeUnrootedCanonical(heap, t)])
C9_Witness ==
    /\ pc = "clustered"
    /\ Len(clusters) >= 3
    /\ \E c \in 1..Len(clusters) : Len(clusters[c]) >= 3

\* C10: for every tree t of generate(n), fromCanonical(t.canonical()) has
\* the canonical form of t and as many nodes as t.
C10_RoundTrip ==
    pc = "parsed" =>
        /\ canonical(heap, b) = canonical(heap, a)
        /\ canonical(heap, b) = str
        /\ nodeCount(heap, b) = nodeCount(heap, a)
C10_Witness ==
    /\ pc = "parsed"
    /\ nodeCount(heap, a) >= 5
    /\ \E i \in 1..Len(heap[a].children) : Len(heap[heap[a].children[i]].children) >= 2

\* C3: generate(n) is complete: every tree on n nodes, given by any parent
\* table that forms a tree, has the canonical form of some tree of
\* generate(n).
C3_Complete ==
    pc = "built" =>
        \E i \in 1..Len(trees) : canonical(heap, trees[i]) = canonical(heap, a)
C3_Witness ==
    /\ pc = "built"
    /\ n >= 5
    /\ nodeCount(heap, a) = n
    /\ Len(heap[a].children) = 2
    /\ Abs(heap, heap[a].children[1]) = Abs(heap, heap[a].children[2])

\* C6: canonical() returns the same string for two trees exactly when they
\* are isomorphic as rooted trees (root to root, children unordered); so
\* a == b holds for trees that differ only in the order of children.
C6_CanonicalIffIsomorphic ==
    pc = "compared" =>
        (ok <=> (Abs(heap, a) = Abs(heap, b)))
C6_Witness ==
    /\ pc = "compared"
    /\ ok
    /\ nodeCount(heap, a) >= 4
    /\ Shape(heap, a) # Shape(heap, b)

\* C7: sameUnrootedClass(a, b) is true exactly when a and b are isomorphic
\* as unrooted trees, i.e. b is a hung at one of a's nodes.
C7_SameClassIffUnrootedIso ==
    pc = "sameClass" => (ok <=> UnrootedIso(heap, a, b))
C7_Witness ==
    /\ pc = "sameClass"
    /\ ok
    /\ n >= 6
    /\ canonical(heap, a) # canonical(heap, b)

\* C8: rerootAt(t, v) returns a tree with as many nodes as t whose root
\* corresponds to v and whose edges are the image of t's edges under a
\* bijection of nodes: it is t's undirected graph hung at v, so only the
\* direction of the edges on the path from v to the old root is flipped.
\* (In state "unrooting" with k >= 1, b is rerootAt(a, v) for v the node at
\* position k of allNodes(a).)
RerootedNode == allNodes(heap, a)[k]
C8_RerootPreservesAdjacency ==
    (pc = "unrooting" /\ k >= 1) =>
        /\ nodeCount(heap, b) = nodeCount(heap, a)
        /\ Abs(heap, b) = AbsAt(heap, NodeSet(heap, a), RerootedNode, NULL)
        /\ Len(heap[b].children) =
               Cardinality({w \in NodeSet(heap, a) : Adjacent(heap, RerootedNode, w)})
        /\ NodeSet(heap, b) \cap NodeSet(heap, a) = {}
C8_Witness ==
    /\ pc = "unrooting"
    /\ k >= 1
    /\ n >= 5
    /\ Len(PathFrom(heap, RerootedNode)) >= 3
    /\ Len(heap[RerootedNode].children) >= 1
    /\ Abs(heap, b) # Abs(heap, a)

\* C11: invalid input yields an empty result: generate(n) for n <= 0, and
\* getSystemTrees(level) and getSystemClusters(level) for a level outside
\* 0..10, return an empty list; getSummary(level) then has termCount 0,
\* clusterCount 0, no canonical forms and no cluster sizes; and the cache
\* holds no entry for an argument outside 1..11.
C11_InvalidInputEmpty ==
    /\ (pc = "generatedAny" /\ n <= 0) => trees = <<>>
    /\ (pc = "systemTreesAny" /\ n \in BadLevels) => trees = <<>>
    /\ (pc = "systemClusters" /\ n \in BadLevels) => clusters = <<>>
    /\ (pc = "summary" /\ n \in BadLevels) =>
           /\ summary.level = n
           /\ summary.termCount = 0
           /\ summary.clusterCount = 0
           /\ summary.treeCanonicals = <<>>
           /\ summary.clusterSizes = <<>>
    /\ DOMAIN cache \subseteq 1..11
C11_Witness ==
    /\ pc = "summary"
    /\ n > 10
    /\ summary.termCount = 0
    /\ DOMAIN cache # {}


\* The nodes of the lists cached under `keys`: the list for x holds
\* Len(c[x]) trees of x nodes each.
RECURSIVE NodesOfEntries(_, _)
NodesOfEntriesPlus(x, c, keys) == x * Len(c[x]) + NodesOfEntries(c, keys \ {x})
NodesOfEntries(c, keys) ==
    IF keys = {} THEN 0
    ELSE NodesOfEntriesPlus(CHOOSE x \in keys : TRUE, c, keys)

\* C12: the tree list of a given n is constructed at most once per process.
\* Every step keeps every cache entry (the same roots, the same trees); a
\* step that calls generate allocates exactly the nodes of the lists it
\* adds to the cache, so no list is built a second time by the call or by
\* its recursive calls; and a call for a cached n allocates nothing and
\* returns the cached entry.
C12_StepKeepsCache ==
    /\ \A x \in DOMAIN cache :
         /\ x \in DOMAIN cache'
         /\ cache'[x] = cache[x]
         /\ \A i \in 1..Len(cache[x]) :
              canonical(heap', cache[x][i]) = canonical(heap, cache[x][i])
    /\ pc' \in {"generated", "regenerated"} =>
         /\ Len(heap') = Len(heap) + NodesOfEntries(cache', DOMAIN cache' \ DOMAIN cache)
         /\ (pc' = "generated" /\ n' \in DOMAIN cache) =>
              /\ heap' = heap
              /\ cache' = cache
              /\ trees' = cache[n']
         /\ (pc' = "regenerated" /\ k' \in DOMAIN cache) =>
              /\ heap' = heap
              /\ cache' = cache
              /\ trees2' = cache[k']
C12_ComputedOnce == [][C12_StepKeepsCache]_vars
C12_Witness ==
    /\ pc = "regenerated"
    /\ n >= 5
    /\ k = n
    /\ Len(trees2) >= 9
    /\ trees2 = trees
    /\ trees2 = cache[n]


\* The canonical forms of a vector of trees, and of a vector of clusters.
CanonicalsOf(h, ts) == [i \in 1..Len(ts) |-> canonical(h, ts[i])]
ClusterCanonicalsOf(h, cl) == [i \in 1..Len(cl) |-> CanonicalsOf(h, cl[i])]

\* What a fresh process (no node allocated, empty cache) gets from
\* generate(m), and from groupIntoClusters applied to it, for m = 1..MaxN.
ColdGenerated(g) ==
    [trees |-> CanonicalsOf(g.heap, g.result),
     clusters |-> ClusterCanonicalsOf(g.heap, groupIntoClusters(g.heap, g.result))]
RECURSIVE ColdFrom(_)
ColdFrom(m) ==
    IF m > MaxN THEN <<>>
    ELSE <<ColdGenerated(generate(<<>>, <<>>, m))>> \o ColdFrom(m + 1)
Cold == ColdFrom(1)

\* C13: generation and clustering are functions of their inputs alone: the
\* canonical forms generate(n) returns, in order, are those a fresh process
\* gets, whatever calls were made before; and groupIntoClusters of that list
\* returns the clusters a fresh process gets, in the same order.
C13_Deterministic ==
    /\ pc \in {"generated", "regenerated", "clustered"} =>
           CanonicalsOf(heap, trees) = Cold[n].trees
    /\ pc = "regenerated" => CanonicalsOf(heap, trees2) = Cold[k].trees
    /\ pc = "clustered" => ClusterCanonicalsOf(heap, clusters) = Cold[n].clusters
C13_Witness ==
    /\ pc = "regenerated"
    /\ n >= 5
    /\ k = 3
    /\ Len(heap) > NodesOfEntries(cache, 1..3)
    /\ CanonicalsOf(heap, trees2) = Cold[3].trees


\* C14: the memo cache is guarded: while one caller is inside
\* cache[n] = result, no other caller is inside cache.find(n) or inside
\* cache[n] = result.
C14_CacheGuarded ==
    \A t \in Threads : \A u \in Threads \ {t} :
        ~(thr[t].pc = "inserting" /\ thr[u].pc \in {"finding", "inserting"})


\* How often node x occurs in the children lists of the heap.
Occurrences(h, x) ==
    Cardinality({pos \in (1..Len(h)) \X (1..MaxLinks) :
                    /\ pos[2] <= Len(h[pos[1]].children)
                    /\ h[pos[1]].children[pos[2]] = x})

\* C15: after a->addChild(b), b's parent back-reference is a and b is the
\* last child of a; and since a node that has a parent is not attached
\* again, no node occurs in two children lists or twice in one.
C15_AddChildSetsParent ==
    pc = "attached" =>
        /\ heap[b].parent = a
        /\ heap[a].children # <<>>
        /\ heap[a].children[Len(heap[a].children)] = b
        /\ \A x \in 1..Len(heap) : Occurrences(heap, x) <= 1


\* Every entry of a children list points to a node whose parent
\* back-reference is the owner of the list.
HeapLinksMatch(h) ==
    \A p \in 1..Len(h) : \A i \in 1..Len(h[p].children) :
        h[h[p].children[i]].parent = p
\* The tree under root: the root has no parent, no node is listed twice on
\* the way down, and every other node is a child of its parent, which is a
\* node of the tree.
WellFormedNodes(h, root, nodes) ==
    /\ root # NULL
    /\ h[root].parent = NULL
    /\ Cardinality(SeqRange(nodes)) = Len(nodes)
    /\ \A i \in 2..Len(nodes) :
         /\ h[nodes[i]].parent \in SeqRange(nodes)
         /\ nodes[i] \in SeqRange(h[h[nodes[i]].parent].children)
WellFormed(h, root) == WellFormedNodes(h, root, allNodes(h, root))

\* C16: every tree produced by RootedTree(), generate, copy, fromCanonical
\* (on the canonical form of a tree) and rerootAt is well formed: the root
\* has no parent, every other node's parent back-reference is the one node
\* whose children list contains it, every node is reachable from the root,
\* and no node occurs in two children lists or twice in one.
C16_WellFormed ==
    /\ HeapLinksMatch(heap)
    /\ pc = "new" => WellFormed(heap, a)
    /\ pc = "generated" => \A i \in 1..Len(trees) : WellFormed(heap, trees[i])
    /\ pc \in {"copied", "parsed"} => WellFormed(heap, b)
    /\ (pc = "unrooting" /\ k >= 1) => WellFormed(heap, b)
C16_Witness ==
    /\ pc = "unrooting"
    /\ k >= 2
    /\ n >= 5
    /\ Len(PathFrom(heap, allNodes(heap, a)[k])) >= 3
    /\ nodeCount(heap, b) = n
    /\ Len(heap[b].children) >= 2


\* C17: for a level in 0..10 (here up to MaxN - 1), getSummary(level) has
\* termCount = util::termCountForLevel(level), clusterCount =
\* util::clusterCountForLevel(level), nodeCount =
\* util::nodeCountForLevel(level) = level, and as many canonical forms as
\* termCount.
C17_SummaryAgreesWithTables ==
    (pc = "summary" /\ n \in 0..10) =>
        /\ summary.level = n
        /\ summary.termCount = termCountForLevel(n)
        /\ summary.clusterCount = clusterCountForLevel(n)
        /\ summary.nodeCount = nodeCountForLevel(n)
        /\ nodeCountForLevel(n) = n
        /\ Len(summary.treeCanonicals) = summary.termCount
        /\ Len(summary.clusterSizes) = summary.clusterCount
C17_Witness ==
    /\ pc = "summary"
    /\ n = 5
    /\ summary.termCount = 20
    /\ summary.clusterCount = 6
    /\ summary.nodeCount = 5


\* C18: terms::FlipTransform::clusterCount(n) equals A000055(n), the number
\* of unrooted trees on n nodes, for every n from 1 up to MaxTermsN.
C18_TermsClusterCount ==
    pc = "termsCounted" => k = UnrootedCount[n]


\* The string s spells a tree of m nodes in canonical form: parsing it and
\* taking the canonical form of the parsed tree gives s back.
CanonicalFormOf(t, s, m) ==
    /\ t.node # NULL
    /\ nodeCount(t.heap, t.node) = m
    /\ canonical(t.heap, t.node) = s
IsCanonicalForm(s, m) == CanonicalFormOf(fromCanonical(<<>>, s), s, m)

\* C19: the treeStructure strings of getSystem5Terms() are the canonical
\* forms of the 20 rooted trees with 6 nodes: each is the canonical form of
\* a 6-node tree, they are pairwise distinct, and as a set they are the
\* canonical forms of trees::RootedTreeGenerator::generate(6).
C19_System5TermsAreTheTrees ==
    pc = "system5" =>
        /\ Len(terms) = 20
        /\ \A i \in 1..Len(terms) : IsCanonicalForm(terms[i], 6)
        /\ \A i \in 1..Len(terms), j \in 1..Len(terms) :
               i # j => terms[i] # terms[j]
        /\ SeqRange(terms) = SeqRange(Cold[6].trees)


\* C20: clearCache() clears the generation cache: after it returns the
\* cache holds no entry for any n.
C20_ClearCacheClears ==
    pc = "cleared" => DOMAIN cache = {}


\* A position at which the shock the process needs has not been applied.
ShockMissing(p) ==
    \/ p.position_ = 3 /\ ~p.shock_applied_3_
    \/ p.position_ = 6 /\ ~p.shock_applied_6_

\* C21: since construction or the last reset the positions the process took
\* are an initial piece of 1,4,2,3,8,5,7,6,9 (getCreativeProcessSequence),
\* whatever applyShock calls and refused advance calls came in between; the
\* process stands at the last of them, which is one of 1..9.
C21_AdvanceFollowsSequence ==
    /\ process.position_ \in 1..9
    /\ Len(run.visited) <= Len(getCreativeProcessSequence)
    /\ run.visited = SubSeq(getCreativeProcessSequence, 1, Len(run.visited))
    /\ process.position_ = run.visited[Len(run.visited)]

\* The whole sequence was walked by free calls, some of them refused.
C21_Witness ==
    /\ run.pc = "free"
    /\ run.visited = getCreativeProcessSequence
    /\ run.calls > 10

\* C22: advance() at a shock point whose shock is missing, or at position 9,
\* returns false and changes nothing; 8 is taken only after applyShock
\* succeeded at 3 and 9 only after it succeeded at 6; applyShock() anywhere
\* else, or with the shock already applied, returns false and changes nothing.
C22_ShocksGate ==
    /\ (run.op = "advance" /\ (ShockMissing(run.before) \/ run.before.position_ = 9))
          => (~run.result /\ process = run.before)
    /\ (8 \in SeqRange(run.visited) => 3 \in run.shocked)
    /\ (9 \in SeqRange(run.visited) => 6 \in run.shocked)
    /\ (run.op = "applyShock" /\ ~ShockMissing(run.before))
          => (~run.result /\ process = run.before)

\* advance() was refused at 6, after the first shock had let the process by.
C22_Witness ==
    /\ run.op = "advance"
    /\ ~run.result
    /\ run.before.position_ = 6
    /\ 3 \in run.shocked
    /\ 8 \in SeqRange(run.visited)

\* A reset step: the only step that takes a complete process off position 9.
C23_LeavesOnlyByReset ==
    (process.position_ = 9 /\ process'.position_ # 9) => run'.op = "reset"

\* C23: the loop "applyShock if needsShock, then advance", entered in any
\* reachable state, arrives at position 9 and ends, after at most 10 calls;
\* a complete process leaves 9 by reset() only, and reset() leaves position 1
\* with neither shock applied.
C23_DriverCompletes ==
    /\ (run.pc = "loop") ~> (run.pc = "done" /\ process.position_ = 9)
    /\ [](run.driven <= 10)
    /\ [][C23_LeavesOnlyByReset]_vars
    /\ [](run.op = "reset" => process = CreativeProcess)

\* The loop ended, entered part-way through the sequence.
C23_Witness ==
    /\ run.pc = "done"
    /\ process.position_ = 9
    /\ run.driven > 0
    /\ run.calls > run.driven



\* C24: goToParent() at a term with a parent returns true and makes the
\* parent current; at a term without parent it returns false and leaves the
\* current term as it was.
C24_GoToParentNavigates ==
    nav.op = "goToParent" =>
        IF nav.heap[nav.before].parent_ # NULL
        THEN nav.result /\ nav.this.current_ = nav.heap[nav.before].parent_
        ELSE ~nav.result /\ nav.this.current_ = nav.before



\* C25: no candidate assembled during generate(n) was turned away by the
\* duplicate check (each candidate is either pushed or turned away, so the
\* candidates assembled are as many as the trees collected).
C25_NoCandidateRejected ==
    pc \in {"generated", "copied"} => k = 0

\* generate(7) ran: the partition 3 + 3 of 6 has two equal parts with two
\* subtrees to choose from.
C25_Witness ==
    /\ pc = "generated"
    /\ n = 7
    /\ Len(trees) = a000081(7)
    /\ k = 0



\* The canonical forms of the trees of a cluster, and those of the
\* rerootings of a tree at each of its nodes.
ClusterForms(h, cl) == {canonical(h, cl[j]) : j \in 1..Len(cl)}
RerootedForm(r) == canonical(r.heap, r.node)
RootingForms(h, t) == {RerootedForm(rerootAt(h, t, v)) : v \in NodeSet(h, t)}

\* C26: in groupIntoClusters(generate(n)) every tree's cluster holds exactly
\* the rootings of that tree: the canonical forms found in the cluster are
\* the canonical forms of the tree rerooted at each of its nodes.
C26_ClusterIsAllRootings ==
    pc = "clustered" =>
        /\ \A c \in 1..Len(clusters) : \A j \in 1..Len(clusters[c]) :
              ClusterForms(heap, clusters[c]) = RootingForms(heap, clusters[c][j])
        /\ \A i \in 1..Len(trees) : \E c \in 1..Len(clusters) :
              trees[i] \in SeqRange(clusters[c])

\* The 6-node trees were clustered; one unrooted tree has four rootings or
\* more and another has two or fewer.
C26_Witness ==
    /\ pc = "clustered"
    /\ n = 6
    /\ \E c \in 1..Len(clusters) : Len(clusters[c]) >= 4
    /\ \E c \in 1..Len(clusters) : Len(clusters[c]) <= 2

RECURSIVE SumOf(_)
SumOf(s) == IF s = <<>> THEN 0 ELSE s[1] + SumOf(Tail(s))

\* The places <<c, j>> at which tree t stands in the clusters cl.
PlacesOf(cl, t) ==
    {p \in (1..Len(cl)) \X (1..Len(trees)) :
        p[2] <= Len(cl[p[1]]) /\ cl[p[1]][p[2]] = t}


\* C27: groupIntoClusters(trees) partitions trees: every tree stands at
\* exactly one place of exactly one cluster, no cluster is empty, the sizes
\* add up to the number of trees (none for no trees); and the clusterSizes
\* of a summary add up to its termCount.
C27_ClustersPartition ==
    /\ pc = "clusteredAny" =>
          /\ \A i \in 1..Len(trees) : Cardinality(PlacesOf(clusters, trees[i])) = 1
          /\ \A c \in 1..Len(clusters) : Len(clusters[c]) > 0
          /\ SumOf([c \in 1..Len(clusters) |-> Len(clusters[c])]) = Len(trees)
          /\ (trees = <<>> => clusters = <<>>)
    /\ pc = "summary" =>
          /\ SumOf(summary.clusterSizes) = summary.termCount
          /\ Len(summary.clusterSizes) = summary.clusterCount
          /\ \A c \in 1..Len(summary.clusterSizes) : summary.clusterSizes[c] > 0

\* Twenty trees were split into six clusters of several sizes.
C27_Witness ==
    /\ pc = "clusteredAny"
    /\ Len(trees) = 20
    /\ Len(clusters) = 6
    /\ \E c1 \in 1..Len(clusters), c2 \in 1..Len(clusters) :
          Len(clusters[c1]) > Len(clusters[c2]) /\ Len(clusters[c2]) > 1



\* The roots of the trees the caller holds and of the trees in the cache.
HeldRoots == SeqRange(trees) \cup SeqRange(trees2) \cup CacheRoots(cache)
HeldRootsAfter == SeqRange(trees') \cup SeqRange(trees2') \cup CacheRoots(cache')

\* A step that frees nothing the caller holds leaves every node in kept as
\* it was, and the trees it built have no node in kept.
FrameKept(kept) ==
    /\ \A x \in kept : x <= Len(heap') /\ heap'[x] = heap[x]
    /\ \A t \in HeldRootsAfter \ HeldRoots : NodeSet(heap', t) \cap kept = {}
    /\ (b' # NULL /\ b' # b) => NodeSet(heap', b') \cap kept = {}

\* C28: copy(), rerootAt (in the loop of computeUnrootedCanonical),
\* groupIntoClusters and generate(m) leave every node of every tree held by
\* the caller or the cache as it was (id, children, parent) and build their
\* trees from nodes that belonged to none of them.
C28_StepKeepsTrees ==
    pc' # "idle" => FrameKept(Owned(heap, HeldRoots))
C28_BuildsAfresh == [][C28_StepKeepsTrees]_vars

\* A later generate(m) built larger trees while the caller held an earlier
\* result.
C28_Witness ==
    /\ pc = "regenerated"
    /\ n >= 3
    /\ k > n
    /\ Len(trees2) > Len(trees)



\* C29: the trees generate returned have no node in common with the cache
\* or with the trees another call returned, and a later generate(n) returns
\* its roots with the id generate gave them (0), whatever the caller did to
\* an earlier result.
C29_ResultsOwned ==
    /\ pc \in {"generated", "regenerated"} =>
          Owned(heap, SeqRange(trees)) \cap Owned(heap, CacheRoots(cache)) = {}
    /\ pc = "regenerated" =>
          /\ Owned(heap, SeqRange(trees2)) \cap Owned(heap, SeqRange(trees)) = {}
          /\ \A i \in 1..Len(trees2) : heap[trees2[i]].id = 0



\* canonical() of the tree has two characters for each of its nodes.
TwoPerNode(h, t) == Len(canonical(h, t)) = 2 * nodeCount(h, t)

\* C30: for trees made by RootedTree(), generate, copy and fromCanonical of
\* any bracket string, a == b implies a.nodeCount() = b.nodeCount(), and
\* canonical() is 2 * nodeCount() characters long.
C30_EqualityRespectsSize ==
    /\ pc = "new" => TwoPerNode(heap, a)
    /\ pc = "generated" =>
          /\ \A i \in 1..Len(trees) : TwoPerNode(heap, trees[i])
          /\ \A i \in 1..Len(trees) : \A j \in 1..Len(trees) :
                TreeEq(heap, trees[i], trees[j]) =>
                    nodeCount(heap, trees[i]) = nodeCount(heap, trees[j])
    /\ pc = "copied" =>
          /\ TwoPerNode(heap, a)
          /\ TwoPerNode(heap, b)
          /\ TreeEq(heap, a, b) => nodeCount(heap, a) = nodeCount(heap, b)
    /\ pc = "comparedAny" =>
          /\ TwoPerNode(heap, a)
          /\ TwoPerNode(heap, b)
          /\ ok => nodeCount(heap, a) = nodeCount(heap, b)


====
